---- MODULE Spec2Model ----
(***************************************************************************)
(* Model of the user-identity microservice: the UserService orchestration  *)
(* (register_user, send_otp, verify_otp, login_user) over the user store,  *)
(* the idempotency store, the Redis cache, the rate limiter and the OTP    *)
(* mailer, and the framed binary transport between gateway and service.    *)
(***************************************************************************)
EXTENDS Integers, Sequences, FiniteSets, TLC

(***************************************************************************)
(* Bounds and input domains                                                *)
(***************************************************************************)
MaxCalls == 2            \* service calls started in one behaviour
MaxActive == 2           \* calls in flight at the same time
maxTries == 2            \* RateLimiter.maxTries (configuration)
MaxFrames == 3           \* request frames a client writes on one connection
MaxResponses == 3        \* response frames the service writes to the client
workerPoolSize == 2          \* worker goroutines (100 in the source)
messageQueueSize == 1        \* capacity of messageQueue (1000)
connectionPoolSize == 2      \* connection slots (1000)
rateLimitBurst == 1          \* limiter burst (1000)
maxConcurrentRequests == 1   \* admission threshold (10000)
MaxProfileCalls == 2         \* get_profile calls in one behaviour
window == 2              \* RateLimiter.window, in clock ticks (configuration)
MaxTime == 3             \* the clock stops here

maxBufferSize == 64      \* the largest buffer the reader keeps (10 MiB)

readBufferSize == 8      \* bytes one Read returns at most (16384)

FrameLen == 3            \* bytes of a response frame in the model of Write

MaxWrites == 2           \* responses one goroutine writes to the connection

handlerTimeout == 2      \* the handler deadline in ticks (5 s)

MaxElapsed == 3          \* ticks counted for one handler invocation

MaxHandled == 2          \* messages one worker takes in one behaviour

maxConnections == 2      \* ServiceConfig.maxConnections (100 by default)

minConnections == 1      \* ServiceConfig.minConnections

MaxSockets == 5          \* sockets the client creates in one behaviour

MAX_SOCKET_IDLE_TIME == 1 \* 300000 ms in the source; one tick of Pool_Tick

ringCapacity == 2        \* CircularBuffer: the capacity it starts with (64 KiB)

MaxRingCapacity == 5     \* no write makes the buffer larger than this

MaxData == 3             \* bytes in one write, peek, read or skip
MaxWall == 2             \* readings of time.Now() the entity model tells apart
MaxOtpLength == 6        \* the largest OTP_LENGTH of the environment
OTP_LENGTH == 6          \* the OTP length without OTP_LENGTH in the environment

acceptorCount == 2       \* acceptConnections goroutines (GOMAXPROCS)

MaxReapSockets == 3      \* sockets created in a behaviour with health checks

Calls == 1..MaxCalls
Usernames == {"alice", "bob"}
Emails == {"a@x", "b@x"}
Passwords == {"pw1"}
OTPCodes == {"111111", "222222"}
IdemKeys == {"", "k1"}
Methods == {"register_user", "send_otp", "verify_otp", "login_user"}

(***************************************************************************)
(* State                                                                   *)
(***************************************************************************)
VARIABLES
    users,       \* rows of table users
    idem,        \* rows of table idempotency
    otpCache,    \* Redis otp:<email>  -> [val, ttl]   (val "" = key absent)
    userCache,   \* Redis user:<email> -> set holding at most one snapshot
    attempts,    \* RateLimiter.attempts
    rlSeen,      \* RateLimiter.lastTry: TRUE when the key has an entry
    outbox,      \* e-mails accepted by the mail provider; live: sent while
                 \* otp:<email> existed, and that entry has not expired since
    call,        \* the in-flight and finished service calls
    started,     \* number of calls started so far
    bg,          \* login goroutines still storing their token
    tokenCache,  \* Redis token:<token>
    profileCache,    \* Redis profile:<id> -> set holding at most one entity
    profile,         \* the get_profile calls
    clock,       \* [on, now]: time.Now() in ticks; with on = FALSE time is
                 \* not tracked and every comparison with it is left open
    lastTry,     \* RateLimiter.lastTry as a time (-1: no entry), clock on
    rlLog,       \* the decisions RateLimiter.Allow has made, clock on
    done,            \* TCPHandler.done is closed
    messageQueue,    \* TCPHandler.messageQueue
    activeRequests,  \* TCPHandler.activeRequests
    limiter,         \* tokens left in TCPHandler.limiter
    conns,           \* the server's connections and their reader goroutines
    workers,         \* the worker goroutines
    frames,          \* what became of each frame a client sent
    pendingRequests, \* ServiceClient.pendingRequests
    timers,          \* request-ids whose setTimeout is armed
    settled,         \* the resolve/reject calls made on each request
    socketOut,       \* request frames written: [id, open], open while the
                     \* socket they were written to exists
    socketIn,        \* response frames the service wrote to the socket
    received,        \* how many of them the client has processed
    connection,      \* the client's connection to the service
    sends,           \* sendBinaryRequest calls waiting for a connection
    shut,            \* ServiceClient.shutdown has run
    server,          \* the service process the client connects to: whether
                     \* it is up, whether it holds the other end of the
                     \* client's connection, the requests lost when it died
    script,          \* what the two ends of the byte-level connection write
    sent,            \* how many items of the script have been written
    inbound,         \* bytes written to the service and not yet read
    buffer,          \* handleConnection: buffer
    dropped,         \* the log line with which handleConnection returned
    msgData,         \* the complete messages copied out for the workers
    handled,         \* what handleBinaryMessage made of each message
    outbound,        \* bytes written to the client and not yet read
    responseBuffer,  \* ServiceConnection.responseBuffer
    delivered,       \* the calls processResponseBuffer made to handleResponse
    writeLock,       \* the goroutine inside Write on the connection
    stream,          \* the bytes on the connection: [frame, index] each
    writers,         \* the goroutines that write to the connection
    tasks,           \* what each worker is doing with its message, and
                     \* the time since it created the handler's context
    activeCount,     \* TCPHandler.activeRequests, counted by these workers
    sockets,         \* the sockets createConnection has made for the service
    createTimers,    \* pending setTimeout(createConnection), by their cause
    replacements,    \* sockets created because a given connection was lost
    acceptors,       \* the acceptConnections goroutines
    listener,        \* TCPHandler.listener
    ring,            \* a CircularBuffer: buffer, readOffset, writeOffset,
                     \* _length
    fifo,            \* the bytes written to it and not yet consumed
    got,             \* what its last read or peek returned, and the
                     \* oldest bytes of fifo at that moment
    capacity,        \* the capacity of ServiceConnection.responseBuffer
    validatedUser,   \* the User a ValidatedUser points to
    updateErr,       \* what the last call on the entity returned
    wall,            \* time.Now() as the entity's methods read it
    otpgen,          \* an OTP generator at work: its configuration, the
                     \* digits made so far and the string it returned
    metrics          \* ServiceClient.metrics of the service

\* the profile read path
profVars == <<profileCache, profile>>

\* wall-clock time and what the rate limiter did with it
timeVars == <<clock, lastTry, rlLog>>

svcVars == <<users, idem, otpCache, userCache, attempts, rlSeen, outbox,
             call, started, bg, tokenCache, profVars, timeVars>>

srvVars == <<done, messageQueue, activeRequests, limiter, conns, workers,
             frames>>

cliVars == <<pendingRequests, timers, settled, socketOut, socketIn,
             received, connection, sends, shut, server>>

\* the transport, which no step of the service touches
netVars == <<srvVars, cliVars>>

\* one connection, byte by byte
wireVars == <<script, sent, inbound, buffer, dropped, msgData, handled,
              outbound, responseBuffer, delivered>>

\* the writes of several goroutines to one connection
lockVars == <<writeLock, stream, writers>>

\* the workers and the deadline of their handlers
taskVars == <<tasks, activeCount>>

\* the client's pool of connections to one service
poolVars == <<sockets, createTimers, replacements>>

\* the acceptor goroutines and the listener
acceptVars == <<acceptors, listener>>

\* the parts of the program modelled one by one
\* a CircularBuffer and the queue it stands for
ringVars == <<ring, fifo, got>>

\* the capacity of the client's accumulator
accumVars == <<capacity>>

\* a ValidatedUser
entityVars == <<validatedUser, updateErr, wall>>

\* an OTP generator
genVars == <<otpgen>>

\* the request counters of the client
metricVars == <<metrics>>

lastVars == <<entityVars, genVars, metricVars>>

moreVars == <<acceptVars, ringVars, accumVars, lastVars>>

exceptAccept == <<wireVars, lockVars, taskVars, poolVars, ringVars, accumVars,
                  lastVars>>

exceptRing == <<svcVars, srvVars, cliVars, wireVars, lockVars, taskVars, poolVars, acceptVars,
                accumVars, lastVars>>

exceptLast == <<svcVars, srvVars, cliVars, wireVars, lockVars, taskVars,
                poolVars, acceptVars, ringVars, accumVars>>

exceptMetrics == <<wireVars, lockVars, taskVars, poolVars, acceptVars,
                   ringVars, accumVars, entityVars, genVars>>

extVars == <<wireVars, lockVars, taskVars, poolVars, moreVars>>

coreVars == <<svcVars, srvVars, cliVars>>

exceptWire == <<coreVars, lockVars, taskVars, poolVars, moreVars>>

exceptLock == <<coreVars, wireVars, taskVars, poolVars, moreVars>>

exceptTask == <<coreVars, wireVars, lockVars, poolVars, moreVars>>

exceptPool == <<coreVars, wireVars, lockVars, taskVars, moreVars>>


vars == <<svcVars, srvVars, cliVars, extVars>>

(***************************************************************************)
(* Values                                                                  *)
(***************************************************************************)
\* a repository that stores the password as submitted
HashPassword_Plain(pw) == pw

\* User.HashPassword: bcrypt.GenerateFromPassword, a string that starts with
\* the bcrypt prefix (the salt is not modelled)
HashPassword(pw) == "$2a$" \o pw

\* User.CheckPassword: bcrypt.CompareHashAndPassword
CheckPassword(stored, pw) == stored = "$2a$" \o pw

\* entities.NewUser: a fresh id (uuid.New; the model uses the number of the
\* call that allocates it), the submitted fields, not verified
NewUser(id, username, email, password) ==
    [id |-> id, username |-> username, email |-> email,
     password |-> password, is_verified |-> FALSE]

\* User.MarkAsVerified
MarkAsVerified(u) == [u EXCEPT !.is_verified = TRUE]

\* User.validate (timestamps are not modelled here)
validate(u) == u.username # "" /\ u.email # "" /\ u.password # ""

\* a projection that hands the entity out as it is
NewUserResultFromEntity_Entity(u) == u

\* mapper.NewUserResultFromEntity: the outbound projection, no password
NewUserResultFromEntity(u) ==
    [id |-> u.id, username |-> u.username, email |-> u.email,
     is_verified |-> u.is_verified]

\* json.Marshal of SendOTPCommandResult: {"message": m}
MarshalMessage(m) == [shape |-> "message", message |-> m, result |-> {}]

\* json.Marshal of VerifyOTPCommandResult / CreateUserCommandResult:
\* {"result": r}; r is a set holding the UserResult, {} for null
MarshalResult(r) == [shape |-> "result", message |-> "", result |-> r]

\* json.Unmarshal into SendOTPCommandResult: unknown keys are ignored
UnmarshalMessage(j) == IF j.shape = "message" THEN j.message ELSE ""

\* json.Unmarshal into VerifyOTPCommandResult / CreateUserCommandResult
UnmarshalResult(j) == IF j.shape = "result" THEN j.result ELSE {}

\* the id of the entity an earlier send_otp for this email cached
EmailNo(e) == IF e = "a@x" THEN 0 ELSE 0 - 1

NoBody == [shape |-> "", message |-> "", result |-> {}]
NoRes == [done |-> FALSE, ok |-> FALSE, msg |-> "", body |-> NoBody]
Ok(body) == [done |-> TRUE, ok |-> TRUE, msg |-> "", body |-> body]
Err(msg) == [done |-> TRUE, ok |-> FALSE, msg |-> msg, body |-> NoBody]

(***************************************************************************)
(* Stores                                                                  *)
(***************************************************************************)
\* UserRepository.FindByUsername / FindByEmail: the matching rows
FindByUsername(username) == {r \in users : r.username = username}

FindByEmail(email) == {r \in users : r.email = email}

\* db.Create on table users: primary key and the two unique indexes
UniqueViolation(row) ==
    \E r \in users : \/ r.id = row.id
                     \/ r.username = row.username
                     \/ r.email = row.email

\* IdempotencyRepository.FindByKey
FindByKey(key) == {r \in idem : r.key = key}

\* a limiter that lets one call too many through
Allow_OneMore(k, elapsed) ==
    \/ ~rlSeen[k] \/ elapsed
    \/ attempts[k] <= maxTries

\* RateLimiter.Allow: the verdict. elapsed says whether time.Now() is more
\* than `window` after lastTry[k]
Allow(k, elapsed) ==
    \/ ~rlSeen[k] \/ elapsed
    \/ attempts[k] < maxTries

\* RateLimiter.Allow: the counter after the call
AllowAttempts(k, elapsed) ==
    IF ~rlSeen[k] \/ elapsed THEN [attempts EXCEPT ![k] = 1]
    ELSE IF attempts[k] >= maxTries THEN attempts
    ELSE [attempts EXCEPT ![k] = attempts[k] + 1]

\* RateLimiter.Allow: lastTry[k] is set by every admitted call
AllowSeen(k, elapsed) ==
    IF Allow(k, elapsed) THEN [rlSeen EXCEPT ![k] = TRUE] ELSE rlSeen

RLKeys == Emails \cup {"verify:" \o e : e \in Emails}

\* now.Sub(lastTry) > rl.window, for a key that has an entry
Elapsed(k) ==
    IF ~rlSeen[k] THEN {FALSE}
    ELSE IF clock.on THEN {clock.now - lastTry[k] > window}
    ELSE BOOLEAN

\* RateLimiter.Allow: lastTry[k] = now on every admitted call; the decision
\* is logged for call c
AllowStamp(k, c, ok) ==
    IF clock.on
    THEN /\ lastTry' = IF ok THEN [lastTry EXCEPT ![k] = clock.now]
                       ELSE lastTry
         /\ rlLog' = Append(rlLog, [key |-> k, at |-> clock.now, ok |-> ok,
                                    call |-> c])
         /\ UNCHANGED clock
    ELSE UNCHANGED timeVars

\* a SET without expiry
SetOTP_NoTTL(c, e, otp) == [c EXCEPT ![e] = [val |-> otp, ttl |-> FALSE]]

\* RedisService.SetOTP(key, otp, 5*time.Minute)
SetOTP(c, e, otp) == [c EXCEPT ![e] = [val |-> otp, ttl |-> TRUE]]

\* RedisService.DeleteKey on otp:<email>; every mail sent for the deleted
\* entry stops being a mail of the live OTP window
DeleteOTP(c, e) == [c EXCEPT ![e] = [val |-> "", ttl |-> FALSE]]

Retire(box, e) ==
    {IF m.email = e THEN [m EXCEPT !.live = FALSE] ELSE m : m \in box}

(***************************************************************************)
(* Calls                                                                   *)
(***************************************************************************)
\* co: the calls that were in flight when this one started; rl0: how many
\* rate-limiter decisions had been made by then; derr: what the DeleteKey
\* of a failed send_otp answered
Idle == [pc |-> "idle", method |-> "", username |-> "", email |-> "",
         password |-> "", otp |-> "", key |-> "", lotp |-> "",
         luser |-> {}, res |-> NoRes, co |-> {}, rl0 |-> 0, derr |-> ""]

Active(c) == call[c].pc \notin {"idle", "done"}

\* a call returns: its locals die with the stack frame
Return(c, r) ==
    call' = [call EXCEPT ![c].pc = "done", ![c].lotp = "",
                         ![c].luser = {}, ![c].res = r]

Goto(c, pc) == call' = [call EXCEPT ![c].pc = pc]

\* entities.NewIdempotencyRecord + SetResponse: key, request JSON, response
NewIdempotencyRecord(c, response) ==
    [key |-> call[c].key,
     request |-> [username |-> call[c].username, email |-> call[c].email,
                  password |-> call[c].password, otp |-> call[c].otp],
     response |-> response]

\* where a handler begins: the idempotency lookup is made only for a
\* non-empty key
FirstStep(m, k) ==
    CASE m = "register_user" -> IF k = "" THEN "c_findu" ELSE "c_idem"
      [] m = "send_otp" -> IF k = "" THEN "s_find" ELSE "s_idem"
      [] m = "verify_otp" -> IF k = "" THEN "v_rate" ELSE "v_idem"
      [] OTHER -> "l_find"

\* the request arrives and the handler goroutine starts
StartCall(c, m, u, e, p, o, k) ==
    /\ c = started + 1
    /\ Cardinality({d \in Calls : Active(d)}) < MaxActive
    /\ started' = c
    /\ call' = [call EXCEPT ![c] =
          [Idle EXCEPT !.method = m, !.username = u, !.email = e,
                       !.password = p, !.otp = o, !.key = k,
                       !.co = {d \in Calls : Active(d)},
                       !.rl0 = Len(rlLog),
                       !.pc = FirstStep(m, k)]]
    /\ UNCHANGED <<extVars, netVars, profVars, timeVars, users, idem, otpCache, userCache, attempts, rlSeen,
                   outbox, bg, tokenCache>>

StartRegister(c, keys) ==
    \E u \in Usernames, e \in Emails, p \in Passwords, k \in keys :
        StartCall(c, "register_user", u, e, p, "", k)

StartSendOTP(c, keys) ==
    \E u \in Usernames, e \in Emails, p \in Passwords, k \in keys :
        StartCall(c, "send_otp", u, e, p, "", k)

StartVerifyOTP(c, keys) ==
    \E e \in Emails, o \in OTPCodes, k \in keys :
        StartCall(c, "verify_otp", "", e, "", o, k)

StartLogin(c) ==
    \E u \in Usernames, p \in Passwords :
        StartCall(c, "login_user", u, "", p, "", "")

(***************************************************************************)
(* UserService.SendOTP                                                     *)
(***************************************************************************)
\* idempotency short-circuit: replay the stored response
SendOTP_Idem(c) ==
    /\ call[c].pc = "s_idem"
    /\ IF call[c].key # "" /\ FindByKey(call[c].key) # {}
       THEN \E r \in FindByKey(call[c].key) :
               Return(c, Ok(MarshalMessage(UnmarshalMessage(r.response))))
       ELSE Goto(c, "s_find")
    /\ UNCHANGED <<extVars, netVars, profVars, timeVars, users, idem, otpCache, userCache, attempts, rlSeen,
                   outbox, started, bg, tokenCache>>

\* advisory pre-check on the username
SendOTP_Find(c) ==
    /\ call[c].pc = "s_find"
    /\ IF FindByUsername(call[c].username) # {}
       THEN Return(c, Err("username already exists"))
       ELSE Goto(c, "s_rate")
    /\ UNCHANGED <<extVars, netVars, profVars, timeVars, users, idem, otpCache, userCache, attempts, rlSeen,
                   outbox, started, bg, tokenCache>>

\* rateLimiter.Allow(email)
SendOTP_Rate(c) ==
    /\ call[c].pc = "s_rate"
    /\ \E elapsed \in Elapsed(call[c].email) :
          /\ rlSeen[call[c].email] \/ ~elapsed
          /\ attempts' = AllowAttempts(call[c].email, elapsed)
          /\ rlSeen' = AllowSeen(call[c].email, elapsed)
          /\ AllowStamp(call[c].email, c, Allow(call[c].email, elapsed))
          /\ IF Allow(call[c].email, elapsed)
             THEN Goto(c, "s_get")
             ELSE Return(c,
                    Err("too many OTP requests, please try again later"))
    /\ UNCHANGED <<extVars, netVars, profVars, users, idem, otpCache, userCache, outbox,
                   started, bg, tokenCache>>

\* redisService.GetOTP: re-use the cached code when there is one
SendOTP_Get(c) ==
    /\ call[c].pc = "s_get"
    /\ call' = [call EXCEPT ![c].lotp = otpCache[call[c].email].val,
                            ![c].pc = IF otpCache[call[c].email].val = ""
                                      THEN "s_set" ELSE "s_mail"]
    /\ UNCHANGED <<extVars, netVars, profVars, timeVars, users, idem, otpCache, userCache, attempts, rlSeen,
                   outbox, started, bg, tokenCache>>

\* otpService.GenerateOTP and redisService.SetOTP with the 5 minute TTL
SendOTP_Set(c) ==
    /\ call[c].pc = "s_set"
    /\ \E otp \in OTPCodes :
          /\ otpCache' = SetOTP(otpCache, call[c].email, otp)
          /\ call' = [call EXCEPT ![c].lotp = otp, ![c].pc = "s_mail"]
    /\ UNCHANGED <<extVars, netVars, profVars, timeVars, users, idem, userCache, attempts, rlSeen, outbox,
                   started, bg, tokenCache>>

\* otpService.SendOTP: the provider accepts the mail or fails
SendOTP_Mail(c) ==
    /\ call[c].pc = "s_mail"
    /\ \/ /\ outbox' = outbox \cup {[call |-> c, email |-> call[c].email,
                    otp |-> call[c].lotp,
                    live |-> otpCache[call[c].email].val # ""]}
          /\ Goto(c, "s_user")
       \/ /\ outbox' = outbox
          /\ Goto(c, "s_del")
    /\ UNCHANGED <<extVars, netVars, profVars, timeVars, users, idem, otpCache, userCache, attempts, rlSeen,
                   started, bg, tokenCache>>

\* what RedisService.DeleteKey can answer: nil or the error of client.Del
DeleteKeyErrors == {"", "redis: connection refused"}

\* a handler that fails without the DeleteKey
SendOTP_Del_Keep(c) ==
    /\ call[c].pc = "s_del"
    /\ UNCHANGED <<otpCache, outbox>>
    /\ Return(c, Err("failed to send OTP"))
    /\ UNCHANGED <<extVars, netVars, profVars, timeVars, users, idem, userCache, attempts, rlSeen, started, bg, tokenCache>>

\* the mail failed: redisService.DeleteKey(otp:<email>), whose error is not
\* looked at, and fail
SendOTP_Del(c) ==
    /\ call[c].pc = "s_del"
    /\ \E derr \in DeleteKeyErrors :
          /\ IF derr = ""
             THEN /\ otpCache' = DeleteOTP(otpCache, call[c].email)
                  /\ outbox' = Retire(outbox, call[c].email)
             ELSE UNCHANGED <<otpCache, outbox>>
          /\ call' = [call EXCEPT ![c].pc = "done", ![c].lotp = "",
                                  ![c].luser = {}, ![c].derr = derr,
                                  ![c].res = Err("failed to send OTP")]
    /\ UNCHANGED <<extVars, netVars, profVars, timeVars, users, idem, userCache, attempts, rlSeen, started, bg, tokenCache>>

\* a SetUserData that leaves an entry that is already there (SET NX)
SendOTP_User_KeepFirst(c) ==
    /\ call[c].pc = "s_user"
    /\ \/ /\ userCache' = [userCache EXCEPT ![call[c].email] =
                IF @ # {} THEN @
                ELSE {NewUser(c, call[c].username, call[c].email,
                              call[c].password)}]
          /\ IF call[c].key # ""
             THEN Goto(c, "s_rec")
             ELSE Return(c, Ok(MarshalMessage("OTP sent successfully")))
       \/ /\ UNCHANGED userCache
          /\ Return(c, Err("failed to cache user data"))
    /\ UNCHANGED <<extVars, netVars, profVars, timeVars, users, idem, otpCache, attempts, rlSeen, outbox,
                   started, bg, tokenCache>>

\* redisService.SetUserData: the pending snapshot (plaintext password)
SendOTP_User(c) ==
    /\ call[c].pc = "s_user"
    /\ \/ /\ userCache' = [userCache EXCEPT ![call[c].email] =
                {NewUser(c, call[c].username, call[c].email,
                         call[c].password)}]
          /\ IF call[c].key # ""
             THEN Goto(c, "s_rec")
             ELSE Return(c, Ok(MarshalMessage("OTP sent successfully")))
       \/ /\ UNCHANGED userCache
          /\ Return(c, Err("failed to cache user data"))
    /\ UNCHANGED <<extVars, netVars, profVars, timeVars, users, idem, otpCache, attempts, rlSeen, outbox,
                   started, bg, tokenCache>>

\* idempotencyRepo.Create: a failure is logged and ignored
SendOTP_Rec(c) ==
    /\ call[c].pc = "s_rec"
    /\ \/ /\ FindByKey(call[c].key) = {}
          /\ idem' = idem \cup
                {NewIdempotencyRecord(c,
                     MarshalMessage("OTP sent successfully"))}
       \/ idem' = idem
    /\ Return(c, Ok(MarshalMessage("OTP sent successfully")))
    /\ UNCHANGED <<extVars, netVars, profVars, timeVars, users, otpCache, userCache, attempts, rlSeen, outbox,
                   started, bg, tokenCache>>

(***************************************************************************)
(* UserService.VerifyOTP                                                   *)
(***************************************************************************)
VerifyOTP_Idem(c) ==
    /\ call[c].pc = "v_idem"
    /\ IF call[c].key # "" /\ FindByKey(call[c].key) # {}
       THEN \E r \in FindByKey(call[c].key) :
               Return(c, Ok(MarshalResult(UnmarshalResult(r.response))))
       ELSE Goto(c, "v_rate")
    /\ UNCHANGED <<extVars, netVars, profVars, timeVars, users, idem, otpCache, userCache, attempts, rlSeen,
                   outbox, started, bg, tokenCache>>

\* rateLimiter.Allow("verify:" + email)
VerifyOTP_Rate(c) ==
    /\ call[c].pc = "v_rate"
    /\ \E elapsed \in Elapsed("verify:" \o call[c].email) :
          /\ rlSeen["verify:" \o call[c].email] \/ ~elapsed
          /\ attempts' = AllowAttempts("verify:" \o call[c].email, elapsed)
          /\ rlSeen' = AllowSeen("verify:" \o call[c].email, elapsed)
          /\ AllowStamp("verify:" \o call[c].email, c,
                        Allow("verify:" \o call[c].email, elapsed))
          /\ IF Allow("verify:" \o call[c].email, elapsed)
             THEN Goto(c, "v_get")
             ELSE Return(c, Err(
                "too many verification attempts, please try again later"))
    /\ UNCHANGED <<extVars, netVars, profVars, users, idem, otpCache, userCache, outbox,
                   started, bg, tokenCache>>

\* subtle.ConstantTimeCompare(cacheOtp, providedOTP) == 1
OTPMatches(provided, cached) == provided = cached

\* otpService.VerifyOTP: (true, nil), or (false, error) on a mismatch
OTPService_VerifyOTP(provided, cached) ==
    IF OTPMatches(provided, cached) THEN [valid |-> TRUE, err |-> ""]
    ELSE [valid |-> FALSE, err |-> "wrong OTP verification"]

\* a handler that deletes otp:<email> when the supplied OTP is wrong
VerifyOTP_Get_Burn(c) ==
    /\ call[c].pc = "v_get"
    /\ IF otpCache[call[c].email].val = ""
       THEN Return(c, Err("OTP expired or not found")) /\ UNCHANGED otpCache
       ELSE IF ~OTPMatches(call[c].otp, otpCache[call[c].email].val)
       THEN /\ Return(c, Err("OTP verification failed: wrong OTP verification"))
            /\ otpCache' = DeleteOTP(otpCache, call[c].email)
       ELSE Goto(c, "v_user") /\ UNCHANGED otpCache
    /\ UNCHANGED <<extVars, netVars, profVars, timeVars, users, idem, userCache,
                   attempts, rlSeen, outbox, started, bg, tokenCache>>

\* redisService.GetOTP, then the comparison with the supplied OTP
VerifyOTP_Get(c) ==
    /\ call[c].pc = "v_get"
    /\ LET v == OTPService_VerifyOTP(call[c].otp,
                                     otpCache[call[c].email].val)
       IN IF otpCache[call[c].email].val = ""
          THEN Return(c, Err("OTP expired or not found"))
          ELSE IF v.err # ""
          THEN Return(c, Err("OTP verification failed: " \o v.err))
          ELSE IF ~v.valid
          THEN Return(c, Err("invalid OTP"))
          ELSE Goto(c, "v_user")
    /\ UNCHANGED <<extVars, netVars, profVars, timeVars, users, idem, otpCache, userCache, attempts, rlSeen,
                   outbox, started, bg, tokenCache>>

\* redisService.GetUserData, MarkAsVerified, NewValidatedUser
VerifyOTP_User(c) ==
    /\ call[c].pc = "v_user"
    /\ IF userCache[call[c].email] = {}
       THEN Return(c, Err("user data expired or not found"))
       ELSE \E u \in userCache[call[c].email] :
               IF validate(MarkAsVerified(u))
               THEN call' = [call EXCEPT ![c].luser = {MarkAsVerified(u)},
                                         ![c].pc = "v_ins"]
               ELSE Return(c, Err("validation failed"))
    /\ UNCHANGED <<extVars, netVars, profVars, timeVars, users, idem, otpCache, userCache, attempts, rlSeen,
                   outbox, started, bg, tokenCache>>

\* the row written by UserRepository.Create: the password is hashed first
CreateRow(u, c) ==
    [id |-> u.id, username |-> u.username, email |-> u.email,
     password |-> HashPassword(u.password), is_verified |-> u.is_verified,
     tokens |-> 0, by |-> c]    \* by: the call that inserted the row

\* a table without the unique indexes
Insertable_NoIndex(row) == TRUE

\* db.Create under the primary key and the unique indexes
Insertable(row) == ~UniqueViolation(row)

\* userRepo.Create, first half: hash and insert
VerifyOTP_Insert(c) ==
    /\ call[c].pc = "v_ins"
    /\ \E u \in call[c].luser :
          IF Insertable(CreateRow(u, c))
          THEN /\ users' = users \cup {CreateRow(u, c)}
               /\ Goto(c, "v_read")
          ELSE /\ users' = users
               /\ Return(c, Err("failed to register user: unique violation"))
    /\ UNCHANGED <<extVars, netVars, profVars, timeVars, idem, otpCache, userCache, attempts, rlSeen, outbox,
                   started, bg, tokenCache>>

\* userRepo.Create, second half: read the row back by id
VerifyOTP_ReadBack(c) ==
    /\ call[c].pc = "v_read"
    /\ \/ \E u \in call[c].luser : \E r \in users :
             /\ r.id = u.id
             /\ call' = [call EXCEPT ![c].luser = {r}, ![c].pc = "v_del1"]
       \/ Return(c, Err("failed to register user: read back failed"))
    /\ UNCHANGED <<extVars, netVars, profVars, timeVars, users, idem, otpCache, userCache, attempts, rlSeen,
                   outbox, started, bg, tokenCache>>

\* redisService.DeleteKey(otp:<email>); the error is not looked at
VerifyOTP_DelOTP(c) ==
    /\ call[c].pc = "v_del1"
    /\ \/ /\ otpCache' = DeleteOTP(otpCache, call[c].email)
          /\ outbox' = Retire(outbox, call[c].email)
       \/ UNCHANGED <<otpCache, outbox>>
    /\ Goto(c, "v_del2")
    /\ UNCHANGED <<extVars, netVars, profVars, timeVars, users, idem, userCache, attempts, rlSeen, started, bg, tokenCache>>

\* redisService.DeleteKey(user:<email>); the error is not looked at
VerifyOTP_DelUser(c) ==
    /\ call[c].pc = "v_del2"
    /\ \/ userCache' = [userCache EXCEPT ![call[c].email] = {}]
       \/ UNCHANGED userCache
    /\ \E r \in call[c].luser :
          IF call[c].key # ""
          THEN Goto(c, "v_rec")
          ELSE Return(c, Ok(MarshalResult({NewUserResultFromEntity(r)})))
    /\ UNCHANGED <<extVars, netVars, profVars, timeVars, users, idem, otpCache, attempts, rlSeen, outbox,
                   started, bg, tokenCache>>

\* idempotencyRepo.Create: a failure is logged and ignored
VerifyOTP_Rec(c) ==
    /\ call[c].pc = "v_rec"
    /\ \E r \in call[c].luser :
          /\ \/ /\ FindByKey(call[c].key) = {}
                /\ idem' = idem \cup {NewIdempotencyRecord(c,
                              MarshalResult({NewUserResultFromEntity(r)}))}
             \/ idem' = idem
          /\ Return(c, Ok(MarshalResult({NewUserResultFromEntity(r)})))
    /\ UNCHANGED <<extVars, netVars, profVars, timeVars, users, otpCache, userCache, attempts, rlSeen, outbox,
                   started, bg, tokenCache>>

(***************************************************************************)
(* UserService.CreateUser (register_user)                                  *)
(***************************************************************************)
CreateUser_Idem(c) ==
    /\ call[c].pc = "c_idem"
    /\ IF call[c].key # "" /\ FindByKey(call[c].key) # {}
       THEN \E r \in FindByKey(call[c].key) :
               Return(c, Ok(MarshalResult(UnmarshalResult(r.response))))
       ELSE Goto(c, "c_findu")
    /\ UNCHANGED <<extVars, netVars, profVars, timeVars, users, idem, otpCache, userCache, attempts, rlSeen,
                   outbox, started, bg, tokenCache>>

CreateUser_FindUsername(c) ==
    /\ call[c].pc = "c_findu"
    /\ IF FindByUsername(call[c].username) # {}
       THEN Return(c, Err("username already exists"))
       ELSE Goto(c, "c_finde")
    /\ UNCHANGED <<extVars, netVars, profVars, timeVars, users, idem, otpCache, userCache, attempts, rlSeen,
                   outbox, started, bg, tokenCache>>

\* FindByEmail, then NewUser and NewValidatedUser
CreateUser_FindEmail(c) ==
    /\ call[c].pc = "c_finde"
    /\ IF FindByEmail(call[c].email) # {}
       THEN Return(c, Err("email already exists"))
       ELSE IF validate(NewUser(c, call[c].username, call[c].email,
                                call[c].password))
       THEN call' = [call EXCEPT ![c].pc = "c_ins", ![c].luser =
               {NewUser(c, call[c].username, call[c].email,
                        call[c].password)}]
       ELSE Return(c, Err("validation failed"))
    /\ UNCHANGED <<extVars, netVars, profVars, timeVars, users, idem, otpCache, userCache, attempts, rlSeen,
                   outbox, started, bg, tokenCache>>

\* userRepo.Create, first half: hash and insert
CreateUser_Insert(c) ==
    /\ call[c].pc = "c_ins"
    /\ \E u \in call[c].luser :
          IF Insertable(CreateRow(u, c))
          THEN /\ users' = users \cup {CreateRow(u, c)}
               /\ Goto(c, "c_read")
          ELSE /\ users' = users
               /\ Return(c, Err("unique violation"))
    /\ UNCHANGED <<extVars, netVars, profVars, timeVars, idem, otpCache, userCache, attempts, rlSeen, outbox,
                   started, bg, tokenCache>>

\* userRepo.Create, second half: read the row back by id
CreateUser_ReadBack(c) ==
    /\ call[c].pc = "c_read"
    /\ \/ \E u \in call[c].luser : \E r \in users :
             /\ r.id = u.id
             /\ IF call[c].key # ""
                THEN call' = [call EXCEPT ![c].luser = {r}, ![c].pc = "c_rec"]
                ELSE Return(c, Ok(MarshalResult({NewUserResultFromEntity(r)})))
       \/ Return(c, Err("read back failed"))
    /\ UNCHANGED <<extVars, netVars, profVars, timeVars, users, idem, otpCache, userCache, attempts, rlSeen,
                   outbox, started, bg, tokenCache>>

CreateUser_Rec(c) ==
    /\ call[c].pc = "c_rec"
    /\ \E r \in call[c].luser :
          /\ \/ /\ FindByKey(call[c].key) = {}
                /\ idem' = idem \cup {NewIdempotencyRecord(c,
                              MarshalResult({NewUserResultFromEntity(r)}))}
             \/ idem' = idem
          /\ Return(c, Ok(MarshalResult({NewUserResultFromEntity(r)})))
    /\ UNCHANGED <<extVars, netVars, profVars, timeVars, users, otpCache, userCache, attempts, rlSeen, outbox,
                   started, bg, tokenCache>>

(***************************************************************************)
(* UserService.LoginUser                                                   *)
(***************************************************************************)
\* jwtService.GenerateToken: the subject is the user id
GenerateToken(id) == <<"jwt", id>>

\* LoginUserCommandResult as the handler serialises it: token and user
MarshalLogin(token, ur) ==
    [shape |-> "login", message |-> "", result |-> {ur}, token |-> token]

\* what the login path demands of the row it found
LoginAccepts(r, password) == CheckPassword(r.password, password)

\* FindByCredentials, CheckPassword, GenerateToken; the token is stored by
\* a goroutine that outlives the call
LoginUser(c) ==
    /\ call[c].pc = "l_find"
    /\ IF FindByUsername(call[c].username) = {}
       THEN /\ Return(c, Err("invalid credentials"))
            /\ bg' = bg
       ELSE \E r \in FindByUsername(call[c].username) :
               IF LoginAccepts(r, call[c].password)
               THEN /\ Return(c, Ok(MarshalLogin(GenerateToken(r.id),
                                           NewUserResultFromEntity(r))))
                    /\ bg' = bg \cup {[call |-> c, id |-> r.id,
                                       pc |-> "redis"]}
               ELSE /\ Return(c, Err("invalid credentials"))
                    /\ bg' = bg
    /\ UNCHANGED <<extVars, netVars, profVars, timeVars, users, idem, otpCache, userCache, attempts, rlSeen,
                   outbox, started, tokenCache>>

\* goroutine: redisService.SetToken (a failure is logged)
Login_SetToken(t) ==
    /\ t \in bg /\ t.pc = "redis"
    /\ \/ tokenCache' = tokenCache \cup {GenerateToken(t.id)}
       \/ tokenCache' = tokenCache
    /\ bg' = (bg \ {t}) \cup {[t EXCEPT !.pc = "db"]}
    /\ UNCHANGED <<extVars, netVars, profVars, timeVars, users, idem, otpCache, userCache, attempts, rlSeen,
                   outbox, call, started>>

\* goroutine: userRepo.UpdateTokens, array_append on the row
Login_UpdateTokens(t) ==
    /\ t \in bg /\ t.pc = "db"
    /\ users' = {IF r.id = t.id THEN [r EXCEPT !.tokens = @ + 1] ELSE r :
                 r \in users}
    /\ bg' = bg \ {t}
    /\ UNCHANGED <<extVars, netVars, profVars, timeVars, idem, otpCache, userCache, attempts, rlSeen, outbox,
                   call, started, tokenCache>>

(***************************************************************************)
(* UserService.GetProfile                                                  *)
(***************************************************************************)
ProfileCalls == 1..MaxProfileCalls

\* the ids NewUser has handed out
ProfileIds == {EmailNo(e) : e \in Emails} \cup Calls

\* src: where the answer came from
NoProfile == [pc |-> "idle", id |-> 0, luser |-> {}, res |-> NoRes,
              src |-> ""]

\* UserRepository.mapToEntity: the row as an entity, password included
mapToEntity(row) ==
    [id |-> row.id, username |-> row.username, email |-> row.email,
     password |-> row.password, is_verified |-> row.is_verified]

\* UserRepository.FindById
FindById(id) == {mapToEntity(r) : r \in {x \in users : x.id = id}}

ProfileReturn(q, r, src) ==
    profile' = [profile EXCEPT ![q].pc = "done", ![q].luser = {},
                               ![q].res = r, ![q].src = src]

\* handleProfile: the request arrives with a user id
StartGetProfile(q) ==
    /\ profile[q].pc = "idle"
    /\ \A p \in ProfileCalls : p < q => profile[p].pc # "idle"
    /\ \E id \in ProfileIds :
          profile' = [profile EXCEPT ![q].pc = "p_cache", ![q].id = id]
    /\ UNCHANGED <<extVars, netVars, timeVars, users, idem, otpCache, userCache, attempts,
                   rlSeen, outbox, call, started, bg, tokenCache,
                   profileCache>>

\* redisService.GetProfile: a hit is answered from the cache with the
\* password blanked; a miss or a Redis error goes on to the database
GetProfile_Cache(q) ==
    /\ profile[q].pc = "p_cache"
    /\ \/ \E u \in profileCache[profile[q].id] :
             ProfileReturn(q, Ok(MarshalResult(
                 {NewUserResultFromEntity([u EXCEPT !.password = ""])})),
                 "cache")
       \/ profile' = [profile EXCEPT ![q].pc = "p_db"]
    /\ UNCHANGED <<extVars, netVars, timeVars, users, idem, otpCache, userCache, attempts,
                   rlSeen, outbox, call, started, bg, tokenCache,
                   profileCache>>

\* userRepo.GetProfile: FindById
GetProfile_DB(q) ==
    /\ profile[q].pc = "p_db"
    /\ \/ /\ FindById(profile[q].id) = {}
          /\ ProfileReturn(q, Err("user not found"), "")
       \/ \E u \in FindById(profile[q].id) :
             profile' = [profile EXCEPT ![q].pc = "p_set", ![q].luser = {u}]
       \/ ProfileReturn(q, Err("database error"), "")
    /\ UNCHANGED <<extVars, netVars, timeVars, users, idem, otpCache, userCache, attempts,
                   rlSeen, outbox, call, started, bg, tokenCache,
                   profileCache>>

\* redisService.SetProfile with the 24 hour TTL (a failure is logged), then
\* the result
GetProfile_Set(q) ==
    /\ profile[q].pc = "p_set"
    /\ \/ profileCache' = [profileCache EXCEPT ![profile[q].id] =
                               profile[q].luser]
       \/ UNCHANGED profileCache
    /\ \E u \in profile[q].luser :
          ProfileReturn(q, Ok(MarshalResult({NewUserResultFromEntity(u)})),
                        "store")
    /\ UNCHANGED <<extVars, netVars, timeVars, users, idem, otpCache, userCache, attempts,
                   rlSeen, outbox, call, started, bg, tokenCache>>

\* profile:<id> reaches its TTL
ExpireProfile(id) ==
    /\ profileCache[id] # {}
    /\ profileCache' = [profileCache EXCEPT ![id] = {}]
    /\ UNCHANGED <<extVars, netVars, timeVars, users, idem, otpCache, userCache, attempts,
                   rlSeen, outbox, call, started, bg, tokenCache, profile>>

\* time is not tracked
TimeOff ==
    /\ clock = [on |-> FALSE, now |-> 0]
    /\ lastTry = [k \in RLKeys |-> 0 - 1]
    /\ rlLog = <<>>

\* a tick of the wall clock
Tick ==
    /\ clock.on /\ clock.now < MaxTime
    /\ clock' = [clock EXCEPT !.now = @ + 1]
    /\ UNCHANGED <<extVars, netVars, profVars, lastTry, rlLog, users, idem, otpCache,
                   userCache, attempts, rlSeen, outbox, call, started, bg,
                   tokenCache>>

ProfInit ==
    /\ profileCache = [id \in ProfileIds |-> {}]
    /\ profile = [q \in ProfileCalls |-> NoProfile]

(***************************************************************************)
(* Environment: Redis TTLs                                                 *)
(***************************************************************************)
\* otp:<email> reaches its TTL
ExpireOTP(e) ==
    /\ otpCache[e].val # "" /\ otpCache[e].ttl
    /\ otpCache' = DeleteOTP(otpCache, e)
    /\ outbox' = Retire(outbox, e)
    /\ UNCHANGED <<extVars, netVars, profVars, timeVars, users, idem, userCache, attempts, rlSeen, call, started, bg, tokenCache>>

\* user:<email> reaches its TTL
ExpireUser(e) ==
    /\ userCache[e] # {}
    /\ userCache' = [userCache EXCEPT ![e] = {}]
    /\ UNCHANGED <<extVars, netVars, profVars, timeVars, users, idem, otpCache, attempts, rlSeen, outbox, call,
                   started, bg, tokenCache>>

(***************************************************************************)
(* TCPHandler: the server side of the framed transport                     *)
(***************************************************************************)
Conns == {"c1", "c2"}
FrameNos == 1..MaxFrames
Workers == 1..workerPoolSize
WireMethods == {"login"}

\* the first two bytes of a frame: the magic bytes, or something else
MagicBytes == "UW"

BadMagic == "??"

NoMsg == [conn |-> "", id |-> 0]

NoConn == [state |-> "none", peer |-> "none", reader |-> "none",
           inbox |-> <<>>, chunk |-> <<>>, sent |-> 0, out |-> <<>>]

IdleWorker == [pc |-> "select", msg |-> NoMsg, err |-> "", body |-> ""]

\* createBinaryResponse: the frame carries the request-id and the JSON
createBinaryResponse(requestID, jsonData) ==
    [id |-> requestID, content |-> jsonData]

\* the body sendError marshals
ErrorJSON(errMsg) == <<"error", errMsg>>

\* extractRequestID: the 16 bytes after magic and version
extractRequestID(msg) == msg.id

\* handleBinaryMessage: the method switch and what the handlers may return
handleBinaryMessage(method) ==
    CASE method = "register" ->
            {[err |-> "", body |-> "User registered successfully"],
             [err |-> "registration failed", body |-> ""]}
      [] method = "login" ->
            {[err |-> "", body |-> "token"],
             [err |-> "authentication failed", body |-> ""]}
      [] method = "ping" -> {[err |-> "", body |-> "pong"]}
      [] OTHER -> {[err |-> "unknown method", body |-> ""]}

\* conn.Write: on a connection this side has closed it fails; otherwise it
\* succeeds or runs into its 10 second deadline
WriteOutcomes(c) ==
    IF conns[c].state = "closed" THEN {FALSE} ELSE BOOLEAN

\* the connection after conn.Write(response) returned ok or an error, which
\* the callers only log
Written(cn, response, ok) ==
    IF ok THEN [cn EXCEPT !.out = Append(@, response)] ELSE cn

\* sendError: an error frame with the request-id of the message
sendError(cn, errMsg, requestID, ok) ==
    Written(cn, createBinaryResponse(requestID, ErrorJSON(errMsg)), ok)

Finish(c, n) == frames' = [frames EXCEPT ![c][n].stage = "finished"]

OpenConns == {c \in Conns : conns[c].reader \in {"select", "read", "process"}}

\* acceptConnections: a connection slot, Accept, and a reader goroutine
Accept(c) ==
    /\ done = "open"
    /\ conns[c].state = "none"
    /\ Cardinality(OpenConns) < connectionPoolSize
    /\ conns' = [conns EXCEPT ![c] =
          [NoConn EXCEPT !.state = "open", !.peer = "open",
                         !.reader = "select"]]
    /\ UNCHANGED <<extVars, svcVars, cliVars, done, messageQueue, activeRequests,
                   limiter, workers, frames>>

FramesSent ==
    Cardinality({f \in Conns \X FrameNos :
                    frames[f[1]][f[2]].stage # "unsent"})

\* a client writes a request frame, or bytes that do not start a frame
ClientSend(c) ==
    /\ conns[c].state = "open" /\ conns[c].peer = "open"
    /\ FramesSent < MaxFrames
    /\ \E magic \in {MagicBytes, BadMagic} :
          LET n == conns[c].sent + 1 IN
          /\ conns' = [conns EXCEPT ![c].sent = n,
                                    ![c].inbox = Append(@, n)]
          /\ frames' = [frames EXCEPT ![c][n] =
                            [stage |-> "sent", magic |-> magic]]
    /\ UNCHANGED <<extVars, svcVars, cliVars, done, messageQueue, activeRequests,
                   limiter, workers>>

\* the client closes its end
ClientClose(c) ==
    /\ conns[c].state = "open" /\ conns[c].peer = "open"
    /\ conns' = [conns EXCEPT ![c].peer = "closed"]
    /\ UNCHANGED <<extVars, svcVars, cliVars, done, messageQueue, activeRequests,
                   limiter, workers, frames>>

\* handleConnection returns: the deferred conn.Close()
ReaderReturns(cn) ==
    [cn EXCEPT !.reader = "returned", !.state = "closed", !.chunk = <<>>]

\* handleConnection, top of the loop: select on done, default: read
Reader_Select(c) ==
    /\ conns[c].reader = "select"
    /\ conns' = [conns EXCEPT ![c] =
          IF done = "open" THEN [@ EXCEPT !.reader = "read"]
          ELSE ReaderReturns(@)]
    /\ UNCHANGED <<extVars, svcVars, cliVars, done, messageQueue, activeRequests,
                   limiter, workers, frames>>

\* conn.Read: some of the bytes the client has sent, or an error (EOF, the
\* 60 second read deadline)
Reader_Read(c) ==
    /\ conns[c].reader = "read"
    /\ \/ \E k \in 1..Len(conns[c].inbox) :
             conns' = [conns EXCEPT
                 ![c].chunk = SubSeq(conns[c].inbox, 1, k),
                 ![c].inbox = SubSeq(conns[c].inbox, k + 1,
                                     Len(conns[c].inbox)),
                 ![c].reader = "process"]
       \/ /\ conns[c].inbox = <<>>
          /\ conns' = [conns EXCEPT ![c] = ReaderReturns(@)]
    /\ UNCHANGED <<extVars, svcVars, cliVars, done, messageQueue, activeRequests,
                   limiter, workers, frames>>

\* after the last message of the buffer the reader is back at its select
AfterMessage(cn) ==
    IF Len(cn.chunk) = 1 THEN [cn EXCEPT !.chunk = <<>>, !.reader = "select"]
    ELSE [cn EXCEPT !.chunk = Tail(@)]

\* handleConnection, the loop over complete messages: checkMessageComplete,
\* then admission (limiter, activeRequests, queue) or the error frame
Reader_Process(c) ==
    /\ conns[c].reader = "process"
    /\ LET n == Head(conns[c].chunk)
           msg == [conn |-> c, id |-> n]
       IN
       IF frames[c][n].magic # MagicBytes
       THEN /\ conns' = [conns EXCEPT ![c] = ReaderReturns(@)]
            /\ UNCHANGED <<limiter, messageQueue, frames>>
       ELSE IF limiter = 0
       THEN /\ \E ok \in WriteOutcomes(c) :
                  conns' = [conns EXCEPT ![c] = AfterMessage(
                      sendError(@, "Rate limit exceeded",
                                extractRequestID(msg), ok))]
            /\ Finish(c, n)
            /\ UNCHANGED <<limiter, messageQueue>>
       ELSE IF activeRequests > maxConcurrentRequests
       THEN /\ limiter' = limiter - 1
            /\ \E ok \in WriteOutcomes(c) :
                  conns' = [conns EXCEPT ![c] = AfterMessage(
                      sendError(@, "Server overloaded",
                                extractRequestID(msg), ok))]
            /\ Finish(c, n)
            /\ UNCHANGED messageQueue
       ELSE IF Len(messageQueue.items) < messageQueueSize
       THEN /\ limiter' = limiter - 1
            /\ messageQueue' = [messageQueue EXCEPT
                                   !.items = Append(@, msg)]
            /\ conns' = [conns EXCEPT ![c] = AfterMessage(@)]
            /\ frames' = [frames EXCEPT ![c][n].stage = "queued"]
       ELSE /\ limiter' = limiter - 1
            /\ \E ok \in WriteOutcomes(c) :
                  conns' = [conns EXCEPT ![c] = AfterMessage(
                      sendError(@, "Server busy, try again later",
                                extractRequestID(msg), ok))]
            /\ Finish(c, n)
            /\ UNCHANGED messageQueue
    /\ UNCHANGED <<extVars, svcVars, cliVars, done, activeRequests, workers>>

\* rate.Limiter: a token comes back as time passes
Limiter_Refill ==
    /\ limiter < rateLimitBurst
    /\ limiter' = limiter + 1
    /\ UNCHANGED <<extVars, svcVars, cliVars, done, messageQueue, activeRequests,
                   conns, workers, frames>>

\* a worker that returns only when the queue is closed
Worker_Exit_OnClosedQueue(w) ==
    /\ workers[w].pc = "select"
    /\ messageQueue.closed
    /\ workers' = [workers EXCEPT ![w].pc = "exited"]
    /\ UNCHANGED <<extVars, svcVars, cliVars, done, messageQueue, activeRequests,
                   limiter, conns, frames>>

\* startWorker, select case <-h.done
Worker_Exit(w) ==
    /\ workers[w].pc = "select"
    /\ done = "closed"
    /\ workers' = [workers EXCEPT ![w].pc = "exited"]
    /\ UNCHANGED <<extVars, svcVars, cliVars, done, messageQueue, activeRequests,
                   limiter, conns, frames>>

\* startWorker, select case msg := <-h.messageQueue
Worker_Take(w) ==
    /\ workers[w].pc = "select"
    /\ messageQueue.items # <<>>
    /\ LET msg == Head(messageQueue.items) IN
       /\ workers' = [workers EXCEPT ![w].pc = "handle", ![w].msg = msg]
       /\ frames' = [frames EXCEPT ![msg.conn][msg.id].stage = "handling"]
    /\ messageQueue' = [messageQueue EXCEPT !.items = Tail(@)]
    /\ activeRequests' = activeRequests + 1
    /\ UNCHANGED <<extVars, svcVars, cliVars, done, limiter, conns>>

\* startWorker: handleBinaryMessage under the handler timeout
Worker_Handle(w) ==
    /\ workers[w].pc = "handle"
    /\ \E method \in WireMethods : \E r \in handleBinaryMessage(method) :
          workers' = [workers EXCEPT ![w].pc = "write", ![w].err = r.err,
                                     ![w].body = r.body]
    /\ UNCHANGED <<extVars, svcVars, cliVars, done, messageQueue, activeRequests,
                   limiter, conns, frames>>

\* startWorker: sendError or conn.Write(response), then the counter
Worker_Write(w) ==
    /\ workers[w].pc = "write"
    /\ LET msg == workers[w].msg IN
       /\ \E ok \in WriteOutcomes(msg.conn) :
             conns' = [conns EXCEPT ![msg.conn] =
                 IF workers[w].err # ""
                 THEN sendError(@, workers[w].err, msg.id, ok)
                 ELSE Written(@, createBinaryResponse(msg.id,
                                     workers[w].body), ok)]
       /\ Finish(msg.conn, msg.id)
    /\ activeRequests' = activeRequests - 1
    /\ workers' = [workers EXCEPT ![w] = IdleWorker]
    /\ UNCHANGED <<extVars, svcVars, cliVars, done, messageQueue, limiter>>

\* Stop: close(h.done) and listener.Close()
Stop_Close ==
    /\ done = "open"
    /\ done' = "closed"
    /\ UNCHANGED <<extVars, svcVars, cliVars, messageQueue, activeRequests, limiter,
                   conns, workers, frames>>

\* Stop: after wg.Wait(), close(h.messageQueue)
Stop_Wait ==
    /\ done = "closed"
    /\ ~messageQueue.closed
    /\ \A w \in Workers : workers[w].pc = "exited"
    /\ OpenConns = {}
    /\ messageQueue' = [messageQueue EXCEPT !.closed = TRUE]
    /\ UNCHANGED <<extVars, svcVars, cliVars, done, activeRequests, limiter, conns,
                   workers, frames>>

\* NewTCPHandler
SrvInit ==
    /\ done = "open"
    /\ messageQueue = [items |-> <<>>, closed |-> FALSE]
    /\ activeRequests = 0
    /\ limiter = rateLimitBurst
    /\ conns = [c \in Conns |-> NoConn]
    /\ workers = [w \in Workers |-> IdleWorker]
    /\ frames = [c \in Conns |->
                    [n \in FrameNos |-> [stage |-> "unsent", magic |-> ""]]]

(***************************************************************************)
(* ServiceClient: the gateway side of the framed transport                 *)
(***************************************************************************)
\* request-ids as uuidv4() returns them: strings of hex digits, here two
\* digits (one byte on the wire) instead of thirty-two
Uuids == {<<0, 10>>, <<10, 0>>, <<10, 10>>}

\* uuidToBytes: parseInt(hexByte, 16) of each pair of digits
uuidToBytes(uuid) == uuid[1] * 16 + uuid[2]

\* a conversion that drops the leading zero of a byte below 0x10
bytesToUuid_NoPad(byte) ==
    IF byte < 16 THEN <<byte>> ELSE <<byte \div 16, byte % 16>>

\* bytesToUuid: toString(16).padStart(2, '0') of each byte
bytesToUuid(byte) == <<byte \div 16, byte % 16>>

Contents == {"{\"status\":\"success\"}", "<html>"}

\* JSON.parse
JSONParse(content) ==
    CASE content = "{\"status\":\"success\"}" ->
            [ok |-> TRUE, value |-> [status |-> "success"]]
      [] content = "{\"status\":\"error\"}" ->
            [ok |-> TRUE, value |-> [status |-> "error"]]
      [] OTHER -> [ok |-> FALSE, value |-> [status |-> ""]]

\* processResponseBuffer: the parsed JSON, or the substitute for a body that
\* does not parse
ResponseData(content) ==
    IF JSONParse(content).ok THEN JSONParse(content).value
    ELSE [error |-> "Invalid JSON response"]

Resolved(value) == [kind |-> "resolve", value |-> value]

Rejected(msg) == [kind |-> "reject", value |-> [error |-> msg]]

\* a Map as the set of its entries: has, get, delete, set
MapHas(map, key) == \E e \in map : e.key = key

MapGet(map, key) == (CHOOSE e \in map : e.key = key).value

MapDelete(map, key) == {e \in map : e.key # key}

MapSet(map, key, value) ==
    MapDelete(map, key) \cup {[key |-> key, value |-> value]}

MapKeys(map) == {e.key : e \in map}

\* uuidv4() has not returned this id before
Fresh(u) ==
    /\ ~MapHas(pendingRequests, u)
    /\ u \notin sends
    /\ u \notin timers
    /\ settled[u] = <<>>
    /\ \A r \in socketOut : r.id # uuidToBytes(u)

\* socket.write(createBinaryRequest(method, payload, requestId))
SocketWrite(u) == socketOut \cup {[id |-> uuidToBytes(u), open |-> TRUE]}

\* socket.destroy(): what was in flight in either direction is lost
DestroyedOut == {[r EXCEPT !.open = FALSE] : r \in socketOut}

Destroyed(sock) == SubSeq(sock, 1, received)

\* sendBinaryRequest once it holds a connection: the timer, the map entry
\* and the write, which may throw
Dispatch(u) ==
    \/ /\ pendingRequests' = MapSet(pendingRequests, u, "request")
       /\ timers' = timers \cup {u}
       /\ socketOut' = SocketWrite(u)
       /\ UNCHANGED <<settled, connection>>
    \/ /\ settled' = [settled EXCEPT ![u] =
                         Append(@, Rejected("Failed to send request"))]
       /\ connection' = "failed"
       /\ UNCHANGED <<pendingRequests, timers, socketOut>>

Reject(u, msg) ==
    /\ settled' = [settled EXCEPT ![u] = Append(@, Rejected(msg))]
    /\ UNCHANGED <<pendingRequests, timers, socketOut>>

\* sendBinaryRequest: getAvailableConnection finds a connection, or none
\* that is available, or starts one and waits 50 ms for it
SendBinaryRequest(u) ==
    /\ Fresh(u)
    /\ IF shut
       THEN \* connections.get(serviceName) is undefined after shutdown
            Reject(u, "TypeError") /\ UNCHANGED <<sends, connection>>
       ELSE IF connection = "up"
       THEN Dispatch(u) /\ UNCHANGED sends
       ELSE IF connection = "failed"
       THEN /\ Reject(u, "No available connections")
            /\ UNCHANGED <<sends, connection>>
       ELSE /\ sends' = sends \cup {u}
            /\ connection' = "connecting"
            /\ UNCHANGED <<pendingRequests, timers, settled, socketOut>>
    /\ UNCHANGED <<extVars, svcVars, srvVars, server, socketIn, received, shut>>

\* sendBinaryRequest after the 50 ms wait
SendBinaryRequest_Waited(u) ==
    /\ u \in sends
    /\ sends' = sends \ {u}
    /\ IF connection = "up"
       THEN Dispatch(u)
       ELSE Reject(u, "No available connections") /\ UNCHANGED connection
    /\ UNCHANGED <<extVars, svcVars, srvVars, server, socketIn, received, shut>>

\* pingConnection: the map entry and the 2 second timer are set before the
\* write; a write that throws leaves both
PingConnection(u) ==
    /\ Fresh(u)
    /\ ~shut
    /\ connection = "up"
    /\ pendingRequests' = MapSet(pendingRequests, u, "ping")
    /\ timers' = timers \cup {u}
    /\ \/ /\ socketOut' = SocketWrite(u)
          /\ UNCHANGED <<connection, socketIn>>
       \/ /\ connection' = "connecting"
          /\ socketIn' = Destroyed(socketIn)
          /\ socketOut' = DestroyedOut
    /\ UNCHANGED <<extVars, svcVars, srvVars, server, settled, received, sends, shut>>

\* the service writes a response frame for a request it was sent
ServerFrame ==
    /\ server.up /\ server.peer
    /\ connection \in {"up", "failed"}
    /\ Len(socketIn) < MaxResponses
    /\ \E r \in socketOut, content \in Contents :
          /\ r.open
          /\ socketIn' = Append(socketIn,
                               createBinaryResponse(r.id, content))
    /\ UNCHANGED <<extVars, svcVars, srvVars, server, pendingRequests, timers, settled,
                   socketOut, received, connection, sends, shut>>

\* handleResponse, after the map lookup found the entry: clearTimeout,
\* resolve, delete
HandleFound(requestId, responseData) ==
    /\ timers' = timers \ {requestId}
    /\ settled' = [settled EXCEPT ![requestId] =
                      Append(@, Resolved(responseData))]
    /\ pendingRequests' = MapDelete(pendingRequests, requestId)

\* socket 'data' -> processResponseBuffer -> handleResponse
HandleResponse ==
    /\ connection \in {"up", "failed"}
    /\ received < Len(socketIn)
    /\ received' = received + 1
    /\ LET frame == socketIn[received + 1]
           requestId == bytesToUuid(frame.id)
       IN IF MapHas(pendingRequests, requestId)
          THEN HandleFound(requestId, ResponseData(frame.content))
          ELSE UNCHANGED <<timers, settled, pendingRequests>>
    /\ UNCHANGED <<extVars, svcVars, srvVars, server, socketOut, socketIn, connection, sends,
                   shut>>

\* the setTimeout callback of sendBinaryRequest or of pingConnection
TimerFires(u) ==
    /\ u \in timers
    /\ timers' = timers \ {u}
    /\ IF ~MapHas(pendingRequests, u)
       THEN UNCHANGED <<pendingRequests, settled, connection, socketIn,
                        socketOut>>
       ELSE /\ pendingRequests' = MapDelete(pendingRequests, u)
            /\ IF MapGet(pendingRequests, u) = "request"
               THEN /\ settled' = [settled EXCEPT ![u] =
                                 Append(@, Rejected("Request timeout"))]
                    /\ UNCHANGED <<connection, socketIn, socketOut>>
               ELSE \* ping: closeConnection and createConnection
                    /\ connection' = "connecting"
                    /\ socketIn' = Destroyed(socketIn)
                    /\ socketOut' = DestroyedOut
                    /\ UNCHANGED settled
    /\ UNCHANGED <<extVars, svcVars, srvVars, server, received, sends, shut>>

\* the connection is in the list that this.connections holds: it has
\* connected, and shutdown has not cleared the map since
Listed == ~shut /\ connection \in {"up", "failed"}

\* shutdown: every pending request is rejected and its timer cleared, the
\* connections of the lists are destroyed, the maps cleared
Shutdown ==
    /\ ~shut \/ pendingRequests # {}
    /\ shut' = TRUE
    /\ settled' = [u \in Uuids |->
          IF MapHas(pendingRequests, u)
          THEN Append(settled[u], Rejected("Service client shutting down"))
          ELSE settled[u]]
    /\ timers' = timers \ MapKeys(pendingRequests)
    /\ pendingRequests' = {}
    /\ connection' = IF Listed THEN "none" ELSE connection
    /\ socketIn' = IF Listed THEN Destroyed(socketIn) ELSE socketIn
    /\ socketOut' = IF Listed THEN DestroyedOut ELSE socketOut
    /\ UNCHANGED <<extVars, svcVars, srvVars, server, received, sends>>

\* socket 'connect': the service accepted the connection
Socket_Connect ==
    /\ server.up
    /\ connection = "connecting"
    /\ connection' = "up"
    /\ server' = [server EXCEPT !.peer = TRUE]
    /\ UNCHANGED <<extVars, svcVars, srvVars, pendingRequests, timers, settled,
                   socketOut, socketIn, received, sends, shut>>

\* socket 'error'
Socket_Error ==
    /\ connection = "up"
    /\ connection' = "failed"
    /\ UNCHANGED <<extVars, svcVars, srvVars, server, pendingRequests, timers, settled,
                   socketOut, socketIn, received, sends, shut>>

\* a close handler that schedules no createConnection
Socket_Close_Once ==
    /\ connection \in {"up", "failed"}
    /\ connection' = "none"
    /\ socketIn' = Destroyed(socketIn)
    /\ socketOut' = DestroyedOut
    /\ UNCHANGED <<extVars, svcVars, srvVars, server, pendingRequests, timers, settled,
                   received, sends, shut>>

\* socket 'close': the connection leaves the list, a new one is scheduled
Socket_Close ==
    /\ connection \in {"up", "failed"}
    /\ connection' = IF shut THEN "none" ELSE "connecting"
    /\ socketIn' = Destroyed(socketIn)
    /\ socketOut' = DestroyedOut
    /\ UNCHANGED <<extVars, svcVars, srvVars, server, pendingRequests, timers, settled,
                   received, sends, shut>>

\* the socket of createConnection cannot reach the service: 'error', then
\* 'close', whose handler arms the reconnect timer
Connect_Fails ==
    /\ ~server.up
    /\ connection = "connecting"
    /\ connection' = "backoff"
    /\ UNCHANGED <<extVars, svcVars, srvVars, server, pendingRequests, timers, settled,
                   socketOut, socketIn, received, sends, shut>>

\* the reconnect timer of the close handler: createConnection, which after
\* shutdown finds no connection list
Reconnect ==
    /\ connection = "backoff"
    /\ connection' = IF shut THEN "none" ELSE "connecting"
    /\ UNCHANGED <<extVars, svcVars, srvVars, server, pendingRequests, timers, settled,
                   socketOut, socketIn, received, sends, shut>>

\* the service process dies; the client's sockets learn of it with their
\* 'close' event
ServerDies ==
    /\ server.up
    /\ server' = [up |-> FALSE, peer |-> FALSE,
                  lost |-> server.lost \cup
                      {u \in MapKeys(pendingRequests) :
                          MapGet(pendingRequests, u) = "request"}]
    /\ UNCHANGED <<extVars, svcVars, srvVars, pendingRequests, timers, settled,
                   socketOut, socketIn, received, connection, sends, shut>>

\* the service is started again
ServerReturns ==
    /\ ~server.up
    /\ server' = [server EXCEPT !.up = TRUE]
    /\ UNCHANGED <<extVars, svcVars, srvVars, pendingRequests, timers, settled,
                   socketOut, socketIn, received, connection, sends, shut>>

\* the ServiceClient constructor
CliInit ==
    /\ pendingRequests = {}
    /\ timers = {}
    /\ settled = [u \in Uuids |-> <<>>]
    /\ socketOut = {}
    /\ socketIn = <<>>
    /\ received = 0
    /\ connection = "connecting"
    /\ sends = {}
    /\ shut = FALSE
    /\ server = [up |-> TRUE, peer |-> FALSE, lost |-> {}]

(***************************************************************************)
(* The frames, byte by byte                                                *)
(***************************************************************************)
magicByte1 == 85

magicByte2 == 87

protocolVersion == 1

headerSize == 2

versionSize == 1

uuidSize == 16

methodLenSize == 1

contentLenSize == 4

\* part_022: the response header is magic, version, UUID, content length
MIN_RESPONSE_SIZE == 23

\* the same limit on the client's side
MAX_BUFFER_SIZE == maxBufferSize

MIN(a, b) == IF a < b THEN a ELSE b

\* s[from:to] of Go and Buffer.slice(from, to) of Node: offsets count from 0
Slice(s, from, to) == SubSeq(s, from + 1, to)

\* binary.LittleEndian.PutUint32 and Buffer.writeUInt32LE
PutUint32LE(n) ==
    <<n % 256, (n \div 256) % 256, (n \div 65536) % 256,
      (n \div 16777216) % 256>>

\* the four bytes in the opposite order
PutUint32BE(n) ==
    <<(n \div 16777216) % 256, (n \div 65536) % 256, (n \div 256) % 256,
      n % 256>>

\* binary.LittleEndian.Uint32 and Buffer.readUInt32LE
Uint32LE(b) == b[1] + 256 * b[2] + 65536 * b[3] + 16777216 * b[4]

\* "ping" in ASCII
S_ping ==
    <<112, 105, 110, 103>>

\* "register_user" in ASCII
S_register_user ==
    <<114, 101, 103, 105, 115, 116, 101, 114, 95, 117, 115, 101, 114>>

\* "register" in ASCII
S_register ==
    <<114, 101, 103, 105, 115, 116, 101, 114>>

\* "send_otp" in ASCII
S_send_otp ==
    <<115, 101, 110, 100, 95, 111, 116, 112>>

\* "verify_otp" in ASCII
S_verify_otp ==
    <<118, 101, 114, 105, 102, 121, 95, 111, 116, 112>>

\* "login_user" in ASCII
S_login_user ==
    <<108, 111, 103, 105, 110, 95, 117, 115, 101, 114>>

\* "login" in ASCII
S_login ==
    <<108, 111, 103, 105, 110>>

\* "get_profile" in ASCII
S_get_profile ==
    <<103, 101, 116, 95, 112, 114, 111, 102, 105, 108, 101>>

\* "profile" in ASCII
S_profile ==
    <<112, 114, 111, 102, 105, 108, 101>>

\* "nope" in ASCII
S_nope ==
    <<110, 111, 112, 101>>

\* "{}" in ASCII
S_braces ==
    <<123, 125>>

\* "null" in ASCII
S_null ==
    <<110, 117, 108, 108>>

\* "unknown method: " in ASCII
S_unknownMethod ==
    <<117, 110, 107, 110, 111, 119, 110, 32, 109, 101, 116, 104, 111,
    100, 58, 32>>

\* "username and password are required" in ASCII
S_required ==
    <<117, 115, 101, 114, 110, 97, 109, 101, 32, 97, 110, 100, 32,
    112, 97, 115, 115, 119, 111, 114, 100, 32, 97, 114, 101, 32, 114,
    101, 113, 117, 105, 114, 101, 100>>

\* "missing username or password" in ASCII
S_missing ==
    <<109, 105, 115, 115, 105, 110, 103, 32, 117, 115, 101, 114, 110,
    97, 109, 101, 32, 111, 114, 32, 112, 97, 115, 115, 119, 111, 114,
    100>>

\* {"message":" in ASCII
S_errorOpen ==
    <<123, 34, 109, 101, 115, 115, 97, 103, 101, 34, 58, 34>>

\* ","status":"error"} in ASCII
S_errorClose ==
    <<34, 44, 34, 115, 116, 97, 116, 117, 115, 34, 58, 34, 101, 114,
    114, 111, 114, 34, 125>>

\* {"status":"success","pong": in ASCII
S_pongOpen ==
    <<123, 34, 115, 116, 97, 116, 117, 115, 34, 58, 34, 115, 117, 99,
    99, 101, 115, 115, 34, 44, 34, 112, 111, 110, 103, 34, 58>>

\* a UUID at full length, all of its 16 digit pairs the same
FullUuid(uuid) == [i \in 1..uuidSize |-> uuid]

\* uuidToBytes over the 16 digit pairs of a UUID
uuidToBuffer(uuid) == [i \in 1..uuidSize |-> uuidToBytes(uuid[i])]

\* bytesToUuid over the 16 bytes
bufferToUuid(bytes) == [i \in 1..uuidSize |-> bytesToUuid(bytes[i])]

\* createBinaryRequest with the content length written with the high byte
\* first
createBinaryRequest_BE(method, payloadBuffer, requestId) ==
    <<magicByte1, magicByte2, protocolVersion>>
        \o uuidToBuffer(requestId)
        \o <<Len(method) % 256>> \o method
        \o PutUint32BE(Len(payloadBuffer)) \o payloadBuffer

\* createBinaryRequest: magic, version, UUID, method length, method, content
\* length, content; a Buffer element keeps the low 8 bits of what is stored
createBinaryRequest(method, payloadBuffer, requestId) ==
    <<magicByte1, magicByte2, protocolVersion>>
        \o uuidToBuffer(requestId)
        \o <<Len(method) % 256>> \o method
        \o PutUint32LE(Len(payloadBuffer)) \o payloadBuffer

Incomplete == [size |-> 0, complete |-> FALSE, err |-> ""]

Malformed(err) == [size |-> 0, complete |-> FALSE, err |-> err]

\* checkMessageComplete: (totalSize, complete, err) for the bytes at hand
checkMessageComplete(buf) ==
    LET offset == headerSize + versionSize + uuidSize
    IN IF Len(buf) < offset + methodLenSize THEN Incomplete
       ELSE IF buf[1] # magicByte1 \/ buf[2] # magicByte2
       THEN Malformed("invalid magic bytes")
       ELSE IF buf[3] # protocolVersion
       THEN Malformed("unsupported protocol version")
       ELSE LET methodLen == buf[offset + 1]
                lenAt == offset + methodLenSize + methodLen
            IN IF Len(buf) < lenAt THEN Incomplete
               ELSE IF Len(buf) < lenAt + contentLenSize THEN Incomplete
               ELSE LET contentLen ==
                            Uint32LE(Slice(buf, lenAt, lenAt + contentLenSize))
                        totalSize == lenAt + contentLenSize + contentLen
                    IN IF Len(buf) < totalSize THEN Incomplete
                       ELSE [size |-> totalSize, complete |-> TRUE, err |-> ""]

RECURSIVE ProcessMessages(_, _)
\* handleConnection, the loop "for processed < len(buffer)": the messages
\* copied out, the bytes kept, and the error that ends the connection
ProcessMessages(buf, msgs) ==
    IF buf = <<>> THEN [msgs |-> msgs, rest |-> <<>>, err |-> ""]
    ELSE LET r == checkMessageComplete(buf)
         IN IF r.err # "" THEN [msgs |-> msgs, rest |-> buf, err |-> r.err]
            ELSE IF ~r.complete THEN [msgs |-> msgs, rest |-> buf, err |-> ""]
            ELSE ProcessMessages(Slice(buf, r.size, Len(buf)),
                                 Append(msgs, Slice(buf, 0, r.size)))

\* createBinaryResponse: magic, version, UUID, content length, content
createBinaryResponse_Bytes(requestID, jsonData) ==
    <<magicByte1, magicByte2, protocolVersion>>
        \o requestID \o PutUint32LE(Len(jsonData)) \o jsonData

\* json.Marshal of map[string]string{"status": "error", "message": errMsg}:
\* the keys come out sorted; errMsg holds no byte that JSON escapes
ErrorJSON_Bytes(errMsg) == S_errorOpen \o errMsg \o S_errorClose

\* the response sendError writes
sendError_Bytes(errMsg, requestID) ==
    createBinaryResponse_Bytes(requestID, ErrorJSON_Bytes(errMsg))

\* the JSON documents the model sends; none holds a username or a password
JSONDocuments == {S_braces, S_null}

\* handleRegister: Unmarshal succeeds and leaves the user empty
handleRegister_Bytes(content) == [json |-> <<>>, err |-> S_required]

\* handleLogin: Unmarshal succeeds and leaves the credentials empty
handleLogin_Bytes(content) == [json |-> <<>>, err |-> S_missing]

\* the ping fast path: the time in milliseconds, here one digit
handlePing_Bytes == [json |-> S_pongOpen \o <<49, 125>>, err |-> <<>>]

\* handleBinaryMessage: the fields of the message, the handler the switch
\* picks, and (requestID, response, err)
handleBinaryMessage_Bytes(data) ==
    LET idAt == headerSize + versionSize
        requestID == Slice(data, idAt, idAt + uuidSize)
        methodLen == data[idAt + uuidSize + 1]
        methodAt == idAt + uuidSize + methodLenSize
        method == Slice(data, methodAt, methodAt + methodLen)
        lenAt == methodAt + methodLen
        contentLen == Uint32LE(Slice(data, lenAt, lenAt + contentLenSize))
        content == Slice(data, lenAt + contentLenSize,
                         lenAt + contentLenSize + contentLen)
        ran == CASE method = S_register -> "handleRegister"
                 [] method = S_login -> "handleLogin"
                 [] method = S_ping -> "ping"
                 [] OTHER -> ""
        res == CASE ran = "handleRegister" -> handleRegister_Bytes(content)
                 [] ran = "handleLogin" -> handleLogin_Bytes(content)
                 [] ran = "ping" -> handlePing_Bytes
                 [] OTHER -> [json |-> <<>>, err |-> S_unknownMethod \o method]
    IN [requestID |-> requestID, method |-> method, content |-> content,
        ran |-> ran, err |-> res.err,
        response |-> IF res.err = <<>>
                     THEN createBinaryResponse_Bytes(requestID, res.json)
                     ELSE <<>>]

\* CircularBuffer.findPattern for the two magic bytes: the first offset at
\* which both are found, or -1
findPattern(buf) ==
    LET hits == {i \in 0..(Len(buf) - 2) :
                    buf[i + 1] = magicByte1 /\ buf[i + 2] = magicByte2}
    IN IF hits = {} THEN -1
       ELSE CHOOSE i \in hits : \A j \in hits : i <= j

\* CircularBuffer.skip
skip(buf, length) == Slice(buf, MIN(length, Len(buf)), Len(buf))

RECURSIVE processResponseBuffer(_, _)
\* processResponseBuffer: the bytes left in the buffer and the
\* (requestId, content) pairs handed to handleResponse
processResponseBuffer(buf, out) ==
    IF Len(buf) < MIN_RESPONSE_SIZE THEN [buf |-> buf, out |-> out]
    ELSE IF buf[1] # magicByte1 \/ buf[2] # magicByte2
    THEN IF findPattern(buf) = -1 THEN [buf |-> <<>>, out |-> out]
         ELSE processResponseBuffer(skip(buf, findPattern(buf)), out)
    ELSE IF buf[3] # protocolVersion
    THEN processResponseBuffer(skip(buf, 1), out)
    ELSE LET contentLength == Uint32LE(Slice(buf, 19, 23))
         IN IF contentLength > MAX_BUFFER_SIZE
            THEN processResponseBuffer(skip(buf, 3), out)
            ELSE IF Len(buf) < 23 + contentLength
            THEN [buf |-> buf, out |-> out]
            ELSE processResponseBuffer(
                     skip(buf, 23 + contentLength),
                     Append(out, [requestId |-> bufferToUuid(Slice(buf, 3, 19)),
                                  content |-> Slice(buf, 23, 23 + contentLength)]))

\* what a script item puts on the wire: a request as the client encodes it,
\* a response as the service encodes it or in one of the two shapes with a
\* method length, or raw bytes
Wire(item) ==
    CASE item.kind = "request" ->
            createBinaryRequest(item.method, item.content, item.requestId)
      [] item.kind = "response" ->
            createBinaryResponse_Bytes(uuidToBuffer(item.requestId), item.content)
      [] item.kind = "response with method" ->
            <<magicByte1, magicByte2, protocolVersion>>
                \o uuidToBuffer(item.requestId)
                \o <<Len(item.method)>> \o item.method
                \o PutUint32LE(Len(item.content)) \o item.content
      [] OTHER -> item.content

Item(kind, requestId, method, content) ==
    [kind |-> kind, requestId |-> requestId, method |-> method,
     content |-> content]

\* no script: the byte-level connection is not in use
WireOff ==
    /\ script = <<>>
    /\ sent = 0
    /\ inbound = <<>>
    /\ buffer = <<>>
    /\ dropped = ""
    /\ msgData = <<>>
    /\ handled = <<>>
    /\ outbound = <<>>
    /\ responseBuffer = <<>>
    /\ delivered = <<>>

\* a connection on which the peers will write the items of s
WireInit(s) ==
    /\ script = s
    /\ sent = 0
    /\ inbound = <<>>
    /\ buffer = <<>>
    /\ dropped = ""
    /\ msgData = <<>>
    /\ handled = <<>>
    /\ outbound = <<>>
    /\ responseBuffer = <<>>
    /\ delivered = <<>>

\* sendBinaryRequest: socket.write(createBinaryRequest(...)); a raw item is
\* a peer that writes other bytes
Client_Write ==
    /\ sent < Len(script)
    /\ script[sent + 1].kind \in {"request", "raw request"}
    /\ sent' = sent + 1
    /\ inbound' = inbound \o Wire(script[sent + 1])
    /\ UNCHANGED <<exceptWire, script, buffer, dropped, msgData, handled,
                   outbound, responseBuffer, delivered>>

\* the service end writes a response, or other bytes, to the client
Service_Write ==
    /\ sent < Len(script)
    /\ script[sent + 1].kind \in {"response", "response with method",
                                  "raw response"}
    /\ sent' = sent + 1
    /\ outbound' = outbound \o Wire(script[sent + 1])
    /\ UNCHANGED <<exceptWire, script, inbound, buffer, dropped, msgData,
                   handled, responseBuffer, delivered>>

\* handleConnection, one pass of its loop: Read of n bytes, append, the size
\* check, the messages copied out for the workers, the rest kept
Conn_Read(n) ==
    /\ dropped = ""
    /\ n \in 1..MIN(readBufferSize, Len(inbound))
    /\ inbound' = Slice(inbound, n, Len(inbound))
    /\ LET appended == buffer \o Slice(inbound, 0, n)
           p == ProcessMessages(appended, <<>>)
       IN IF Len(appended) > maxBufferSize
          THEN /\ dropped' = "Buffer size exceeded"
               /\ buffer' = <<>>
               /\ UNCHANGED msgData
          ELSE /\ msgData' = msgData \o p.msgs
               /\ IF p.err # ""
                  THEN /\ dropped' = "Error checking message: " \o p.err
                       /\ buffer' = <<>>
                  ELSE /\ buffer' = p.rest
                       /\ UNCHANGED dropped
    /\ UNCHANGED <<exceptWire, script, sent, handled, outbound, responseBuffer,
                   delivered>>

\* startWorker on one message: handleBinaryMessage, then sendError or Write;
\* a write to a connection the reader has closed fails and is only logged
Worker_Message ==
    /\ msgData # <<>>
    /\ msgData' = Tail(msgData)
    /\ LET r == handleBinaryMessage_Bytes(Head(msgData))
           response == IF r.err # <<>>
                       THEN sendError_Bytes(r.err, r.requestID)
                       ELSE r.response
       IN /\ handled' = Append(handled, [r EXCEPT !.response = response])
          /\ outbound' = IF dropped = "" THEN outbound \o response
                         ELSE outbound
    /\ UNCHANGED <<exceptWire, script, sent, inbound, buffer, dropped,
                   responseBuffer, delivered>>

\* socket.on('data'): a chunk of n bytes is written to the response buffer
\* and processResponseBuffer runs
Client_Data(n) ==
    /\ n \in 1..Len(outbound)
    /\ outbound' = Slice(outbound, n, Len(outbound))
    /\ LET p == processResponseBuffer(responseBuffer \o Slice(outbound, 0, n),
                                      <<>>)
       IN /\ responseBuffer' = p.buf
          /\ delivered' = delivered \o p.out
    /\ UNCHANGED <<exceptWire, script, sent, inbound, buffer, dropped, msgData,
                   handled>>

(***************************************************************************)
(* Several goroutines write to one connection                              *)
(***************************************************************************)
\* the reader (sendError in handleConnection) and two workers
Writers == {"reader", "worker1", "worker2"}

IdleWriter == [pc |-> "idle", frame |-> 0, pos |-> 0, failed |-> {}]

LockOff ==
    /\ writeLock = "none"
    /\ stream = <<>>
    /\ writers = [w \in Writers |-> IdleWriter]

\* the bytes from..to of the frame w is writing
FrameBytes(w, from, to) ==
    [i \in 1..(to - from + 1) |->
        [writer |-> w, frame |-> writers[w].frame, index |-> from + i - 1]]

\* conn.Write entered without waiting for the goroutine that is inside
Write_Begin_Unlocked(w) ==
    /\ writers[w].pc = "idle"
    /\ writers[w].frame < MaxWrites
    /\ writers' = [writers EXCEPT ![w].pc = "writing", ![w].pos = 0,
                                  ![w].frame = @ + 1]
    /\ UNCHANGED <<exceptLock, writeLock, stream>>

\* conn.Write(response): net.Conn serialises the writers of a connection,
\* a Write waits until no other goroutine is inside Write
Write_Begin(w) ==
    /\ writers[w].pc = "idle"
    /\ writers[w].frame < MaxWrites
    /\ writeLock = "none"
    /\ writeLock' = w
    /\ writers' = [writers EXCEPT ![w].pc = "writing", ![w].pos = 0,
                                  ![w].frame = @ + 1]
    /\ UNCHANGED <<exceptLock, stream>>

\* inside Write: the socket takes the next k bytes
Write_Some(w, k) ==
    /\ writers[w].pc = "writing"
    /\ k \in 1..(FrameLen - writers[w].pos)
    /\ stream' = stream \o FrameBytes(w, writers[w].pos + 1, writers[w].pos + k)
    /\ writers' = [writers EXCEPT ![w].pos = @ + k]
    /\ UNCHANGED <<exceptLock, writeLock>>

\* Write returns: all bytes are written, or the 10 second write deadline has
\* passed, which the caller only logs
Write_Return(w) ==
    /\ writers[w].pc = "writing"
    /\ writers' = [writers EXCEPT
                      ![w].pc = "idle",
                      ![w].failed = IF writers[w].pos < FrameLen
                                    THEN @ \union {writers[w].frame} ELSE @]
    /\ writeLock' = IF writeLock = w THEN "none" ELSE writeLock
    /\ UNCHANGED <<exceptLock, stream>>

(***************************************************************************)
(* A worker, its handler and the handler's deadline                        *)
(***************************************************************************)
TaskWorkers == {"worker1", "worker2"}

\* the calls SendOTP makes to its dependencies, in order
Downstream ==
    <<"idempotencyRepo.FindByKey", "redisService.GetOTP",
      "redisService.SetOTP", "otpService.SendOTP",
      "redisService.SetUserData", "idempotencyRepo.Create">>

IdleTask == [pc |-> "select", elapsed |-> 0, waiting |-> 0, taken |-> 0,
             answers |-> <<>>]

TaskOff ==
    /\ tasks = [w \in TaskWorkers |-> IdleTask]
    /\ activeCount = 0

\* startWorker takes a message: the counter goes up, the context with the
\* deadline is created, handleBinaryMessage -> handleRegister -> SendOTP is
\* called and makes its first downstream call
Task_Start(w) ==
    /\ tasks[w].pc = "select"
    /\ tasks[w].taken < MaxHandled
    /\ activeCount' = activeCount + 1
    /\ tasks' = [tasks EXCEPT ![w].pc = "handling", ![w].elapsed = 0,
                              ![w].waiting = 1, ![w].taken = @ + 1]
    /\ UNCHANGED exceptTask

\* the dependency answers: with an error SendOTP returns it, otherwise it
\* goes on to its next call, and after the last one it returns its result
Task_DownstreamReturns(w, ok) ==
    /\ tasks[w].pc = "handling"
    /\ tasks' = [tasks EXCEPT
                    ![w].pc = IF ok /\ tasks[w].waiting < Len(Downstream)
                              THEN "handling"
                              ELSE IF ok THEN "write" ELSE "sendError",
                    ![w].waiting = IF ok /\ @ < Len(Downstream)
                                   THEN @ + 1 ELSE @]
    /\ UNCHANGED <<exceptTask, activeCount>>

\* the handler has returned: sendError or Write, then the counter goes down
Task_Answer(w) ==
    /\ tasks[w].pc \in {"write", "sendError"}
    /\ tasks' = [tasks EXCEPT
                    ![w].pc = "select",
                    ![w].answers = Append(@, [kind |-> tasks[w].pc,
                                              after |-> tasks[w].elapsed])]
    /\ activeCount' = activeCount - 1
    /\ UNCHANGED exceptTask

\* a tick of time; nothing in the worker or below it waits on ctx.Done()
Task_Tick ==
    /\ \E w \in TaskWorkers :
          tasks[w].pc # "select" /\ tasks[w].elapsed < MaxElapsed
    /\ tasks' = [w \in TaskWorkers |->
                    IF tasks[w].pc # "select" /\ tasks[w].elapsed < MaxElapsed
                    THEN [tasks[w] EXCEPT !.elapsed = @ + 1]
                    ELSE tasks[w]]
    /\ UNCHANGED <<exceptTask, activeCount>>

(***************************************************************************)
(* The client's connection pool                                            *)
(***************************************************************************)
SockIds == 1..MaxSockets

\* the cause of a createConnection call: the connection that was lost, or
\* 0 for warm-up and for a request that found no connection
Causes == 0..MaxSockets

NoSocket == [state |-> "unused", listed |-> FALSE, isAvailable |-> FALSE,
             cause |-> 0, probed |-> FALSE, idle |-> 0, reaped |-> FALSE]

\* the constructor: ensureMinConnections arms one timer per connection needed
PoolInit ==
    /\ sockets = [i \in SockIds |-> NoSocket]
    /\ createTimers = [c \in Causes |-> IF c = 0 THEN minConnections ELSE 0]
    /\ replacements = [i \in SockIds |-> 0]

\* connectionList
connectionList == {i \in SockIds : sockets[i].listed}

Unused == {i \in SockIds : sockets[i].state = "unused"}

\* createConnection: nothing when the list is full, else a new socket that
\* starts to connect and enters the list only on 'connect'
createConnection(socks, cause) ==
    IF Cardinality({i \in SockIds : socks[i].listed}) >= maxConnections
    THEN socks
    ELSE LET i == CHOOSE j \in Unused : \A k \in Unused : j <= k
         IN [socks EXCEPT ![i] = [NoSocket EXCEPT !.state = "connecting",
                                                  !.cause = cause]]

\* the count of sockets made for a lost connection goes up when
\* createConnection made one
Counted(socks, cause) ==
    IF cause # 0 /\ createConnection(socks, cause) # socks
    THEN [replacements EXCEPT ![cause] = @ + 1]
    ELSE replacements

\* a timer armed by ensureMinConnections or by a 'close' handler fires
Pool_TimerFires(cause) ==
    /\ createTimers[cause] > 0
    /\ Unused # {}
    /\ createTimers' = [createTimers EXCEPT ![cause] = @ - 1]
    /\ sockets' = createConnection(sockets, cause)
    /\ replacements' = Counted(sockets, cause)
    /\ UNCHANGED exceptPool

\* getAvailableConnection with no available connection: a new one is
\* created when the list is shorter than maxConnections
Pool_Request ==
    /\ \A i \in connectionList : ~sockets[i].isAvailable
    /\ Cardinality(connectionList) < maxConnections
    /\ Unused # {}
    /\ sockets' = createConnection(sockets, 0)
    /\ UNCHANGED <<exceptPool, createTimers, replacements>>

\* socket.on('connect')
Pool_Connect(i) ==
    /\ sockets[i].state = "connecting"
    /\ sockets' = [sockets EXCEPT ![i].state = "connected",
                                  ![i].listed = TRUE,
                                  ![i].isAvailable = TRUE]
    /\ UNCHANGED <<exceptPool, createTimers, replacements>>

\* socket.on('error'): the connection attempt or the connection fails;
\* 'close' follows
Pool_Error(i) ==
    /\ sockets[i].state \in {"connecting", "connected"}
    /\ sockets' = [sockets EXCEPT ![i].state = "failed",
                                  ![i].isAvailable = FALSE]
    /\ UNCHANGED <<exceptPool, createTimers, replacements>>

\* socket.on('close'), after an error, after destroy, or because the peer
\* closed: off the list, and a timer for createConnection
Pool_Close(i) ==
    /\ sockets[i].state \in {"connected", "failed", "destroyed"}
    /\ sockets' = [sockets EXCEPT ![i].state = "closed",
                                  ![i].listed = FALSE,
                                  ![i].isAvailable = FALSE]
    /\ createTimers' = [createTimers EXCEPT ![i] = @ + 1]
    /\ UNCHANGED <<exceptPool, replacements>>

\* closeConnection: the socket is destroyed, its 'close' comes later
closeConnection(socks, i) ==
    [socks EXCEPT ![i].isAvailable = FALSE,
                  ![i].state = IF @ = "closed" THEN @ ELSE "destroyed"]

\* pingConnection, the probe's timer fires or its write throws:
\* closeConnection, then createConnection
Pool_ProbeFails(i) ==
    /\ sockets[i].state = "connected"
    /\ sockets[i].isAvailable
    /\ Unused # {}
    /\ sockets' = createConnection(closeConnection(sockets, i), i)
    /\ replacements' = Counted(closeConnection(sockets, i), i)
    /\ UNCHANGED <<exceptPool, createTimers>>

\* sendBinaryRequest, socket.write throws: the connection is marked
\* unavailable and createConnection is called; the socket is left alone
Pool_WriteFails(i) ==
    /\ sockets[i].state = "connected"
    /\ sockets[i].isAvailable
    /\ Unused # {}
    /\ sockets' = createConnection(
                      [sockets EXCEPT ![i].isAvailable = FALSE], i)
    /\ replacements' = Counted([sockets EXCEPT ![i].isAvailable = FALSE], i)
    /\ UNCHANGED <<exceptPool, createTimers>>

\* now - conn.lastUsed is followed up to one tick past the idle limit
MaxIdle == MAX_SOCKET_IDLE_TIME + 1

\* time passes for the connections of the list
Pool_Tick ==
    /\ \E i \in connectionList : sockets[i].idle < MaxIdle
    /\ sockets' = [i \in SockIds |->
                      IF sockets[i].listed /\ sockets[i].idle < MaxIdle
                      THEN [sockets[i] EXCEPT !.idle = @ + 1]
                      ELSE sockets[i]]
    /\ UNCHANGED <<exceptPool, createTimers, replacements>>

\* connection.lastUsed = Date.now(): a request is written to the connection
\* or data arrives on it
Pool_Use(i) ==
    /\ sockets[i].state = "connected"
    /\ sockets[i].listed
    /\ sockets[i].idle > 0
    /\ sockets' = [sockets EXCEPT ![i].idle = 0]
    /\ UNCHANGED <<exceptPool, createTimers, replacements>>

\* the test of the reaping loop, with the list one entry too short
Reapable_AtMin(idleTime, length) ==
    idleTime > MAX_SOCKET_IDLE_TIME /\ length >= minConnections

\* the test of the reaping loop
Reapable(idleTime, length) ==
    idleTime > MAX_SOCKET_IDLE_TIME /\ length > minConnections

\* the reaping loop of performHealthChecks over a list in the order given
\* by todo (last entry first): closeConnection and splice
RECURSIVE ReapLoop(_, _)
ReapLoop(socks, todo) ==
    IF todo = <<>> THEN socks
    ELSE LET i == Head(todo)
             length == Cardinality({j \in SockIds : socks[j].listed})
         IN IF Reapable(socks[i].idle, length)
            THEN ReapLoop([closeConnection(socks, i) EXCEPT
                              ![i].listed = FALSE, ![i].reaped = TRUE],
                          Tail(todo))
            ELSE ReapLoop(socks, Tail(todo))

\* the orders the list can have
ListOrders ==
    {o \in [1..Cardinality(connectionList) -> connectionList] :
        \A a, b \in DOMAIN o : a # b => o[a] # o[b]}

\* ensureMinConnections: one timer for each available connection short of
\* minConnections
ensureMinConnections(socks) ==
    LET availableConnections ==
            Cardinality({i \in SockIds : socks[i].listed /\ socks[i].isAvailable})
        connectionsNeeded == minConnections - availableConnections
    IN IF connectionsNeeded > 0
       THEN [createTimers EXCEPT ![0] = @ + connectionsNeeded]
       ELSE createTimers

\* performHealthChecks, a pass that removes an idle connection: the loop,
\* then ensureMinConnections.  The probes the pass sends end in
\* Pool_ProbeFails or in Pool_Use.
Pool_HealthCheck ==
    \E o \in ListOrders :
        LET after == ReapLoop(sockets, o)
        IN /\ after # sockets
           /\ sockets' = after
           /\ createTimers' = ensureMinConnections(after)
           /\ UNCHANGED <<exceptPool, replacements>>

(***************************************************************************)
(* Stop, the acceptors, the connection semaphore and the listener          *)
(***************************************************************************)
Acceptors == 1..acceptorCount

AcceptInit ==
    /\ acceptors = [a \in Acceptors |-> "select"]
    /\ listener = "open"

\* len(h.connectionSemaphore): a slot for each acceptor inside Accept and
\* for each connection goroutine that has not returned
connectionSemaphore ==
    Cardinality({a \in Acceptors : acceptors[a] = "accept"})
        + Cardinality(OpenConns)

\* acceptConnections, the select: done, or a connection slot
Acceptor_Select(a) ==
    /\ acceptors[a] = "select"
    /\ \/ /\ done = "closed"
          /\ acceptors' = [acceptors EXCEPT ![a] = "exited"]
       \/ /\ connectionSemaphore < connectionPoolSize
          /\ acceptors' = [acceptors EXCEPT ![a] = "accept"]
    /\ UNCHANGED <<exceptAccept, coreVars, listener>>

\* listener.Accept() returns a connection: wg.Add(1) and the goroutine of
\* handleConnection, which keeps the slot
Acceptor_Accept(a, c) ==
    /\ acceptors[a] = "accept"
    /\ listener = "open"
    /\ conns[c].state = "none"
    /\ conns' = [conns EXCEPT ![c] =
          [NoConn EXCEPT !.state = "open", !.peer = "open",
                         !.reader = "select"]]
    /\ acceptors' = [acceptors EXCEPT ![a] = "select"]
    /\ UNCHANGED <<exceptAccept, svcVars, cliVars, done, messageQueue,
                   activeRequests, limiter, workers, frames, listener>>

\* listener.Accept() returns an error, always so once the listener is
\* closed: the slot is released; return if done is closed, else go on
Acceptor_AcceptFails(a) ==
    /\ acceptors[a] = "accept"
    /\ acceptors' = [acceptors EXCEPT ![a] =
                        IF done = "closed" THEN "exited" ELSE "select"]
    /\ UNCHANGED <<exceptAccept, coreVars, listener>>

\* Stop: close(h.done)
Stop_Done ==
    /\ done = "open"
    /\ done' = "closed"
    /\ UNCHANGED <<extVars, svcVars, cliVars, messageQueue, activeRequests,
                   limiter, conns, workers, frames>>

\* Stop: h.listener.Close()
Stop_Listener ==
    /\ done = "closed"
    /\ listener = "open"
    /\ listener' = "closed"
    /\ UNCHANGED <<exceptAccept, coreVars, acceptors>>

\* the goroutines counted in h.wg: workers, acceptors, connections
wg ==
    Cardinality({w \in Workers : workers[w].pc # "exited"})
        + Cardinality({a \in Acceptors : acceptors[a] # "exited"})
        + Cardinality(OpenConns)

\* Stop: h.wg.Wait() returns, close(h.messageQueue), return nil
Stop_Return ==
    /\ listener = "closed"
    /\ ~messageQueue.closed
    /\ wg = 0
    /\ messageQueue' = [messageQueue EXCEPT !.closed = TRUE]
    /\ UNCHANGED <<extVars, svcVars, cliVars, done, activeRequests, limiter,
                   conns, workers, frames>>

(***************************************************************************)
(* CircularBuffer                                                          *)
(***************************************************************************)
RingBytes == {1, 2}

MAX(a, b) == IF a >= b THEN a ELSE b

\* Buffer.allocUnsafe(n): n bytes of whatever the memory held
allocUnsafe(n) == [1..n -> RingBytes]

\* source.copy(target, targetStart, sourceStart, sourceEnd): the target
\* after the copy; what does not fit is not copied
BufferCopy(source, target, targetStart, sourceStart, sourceEnd) ==
    LET n == MIN(sourceEnd - sourceStart, Len(target) - targetStart)
    IN [i \in 1..Len(target) |->
           IF i - 1 >= targetStart /\ i - 1 < targetStart + n
           THEN source[sourceStart + (i - 1 - targetStart) + 1]
           ELSE target[i]]

\* get capacity, get availableSpace
Capacity(r) == Len(r.buffer)

availableSpace(r) == Capacity(r) - r.length

\* a resize that leaves out the part of the content before writeOffset
resize_FirstPartOnly(r, newCapacity, newBuffer) ==
    IF newCapacity <= Capacity(r) THEN r
    ELSE [buffer |->
             IF r.length > 0
             THEN IF r.readOffset < r.writeOffset
                  THEN BufferCopy(r.buffer, newBuffer, 0, r.readOffset,
                                  r.writeOffset)
                  ELSE BufferCopy(r.buffer, newBuffer, 0,
                                  r.readOffset, Capacity(r))
             ELSE newBuffer,
          readOffset |-> 0, writeOffset |-> r.length, length |-> r.length]

\* CircularBuffer.resize; newBuffer is what allocUnsafe returned
resize(r, newCapacity, newBuffer) ==
    IF newCapacity <= Capacity(r) THEN r
    ELSE [buffer |->
             IF r.length > 0
             THEN IF r.readOffset < r.writeOffset
                  THEN BufferCopy(r.buffer, newBuffer, 0, r.readOffset,
                                  r.writeOffset)
                  ELSE LET firstPart == Capacity(r) - r.readOffset
                       IN BufferCopy(r.buffer,
                              BufferCopy(r.buffer, newBuffer, 0,
                                         r.readOffset, Capacity(r)),
                              firstPart, 0, r.writeOffset)
             ELSE newBuffer,
          readOffset |-> 0, writeOffset |-> r.length, length |-> r.length]

\* the capacity after a write of dataLength bytes
NewCapacity(cap, length, dataLength) ==
    IF dataLength > cap - length
    THEN MAX(cap * 2, cap + dataLength)
    ELSE cap

\* CircularBuffer.write
write(r, data, newBuffer) ==
    LET r1 == IF Len(data) > availableSpace(r)
              THEN resize(r, MAX(Capacity(r) * 2, Capacity(r) + Len(data)),
                          newBuffer)
              ELSE r
        firstWrite == MIN(Len(data), Capacity(r1) - r1.writeOffset)
        b1 == BufferCopy(data, r1.buffer, r1.writeOffset, 0, firstWrite)
        b2 == IF firstWrite < Len(data)
              THEN BufferCopy(data, b1, 0, firstWrite, Len(data))
              ELSE b1
    IN [buffer |-> b2, readOffset |-> r1.readOffset,
        writeOffset |-> (r1.writeOffset + Len(data)) % Capacity(r1),
        length |-> r1.length + Len(data)]

\* CircularBuffer.peek; result is what allocUnsafe returned
peek(r, length, result) ==
    LET firstRead == MIN(length, Capacity(r) - r.readOffset)
        res1 == BufferCopy(r.buffer, result, 0, r.readOffset,
                           r.readOffset + firstRead)
    IN IF firstRead < length
       THEN BufferCopy(r.buffer, res1, firstRead, 0, length - firstRead)
       ELSE res1

\* CircularBuffer.read: the buffer after the read
AfterRead(r, n) ==
    [r EXCEPT !.readOffset = (r.readOffset + n) % Capacity(r),
              !.length = r.length - n]

\* CircularBuffer.clear
clear(r) == [r EXCEPT !.readOffset = 0, !.writeOffset = 0, !.length = 0]

NoResult == [op |-> "", result |-> <<>>, expected |-> <<>>]

\* new CircularBuffer()
RingInit ==
    /\ ring \in {[buffer |-> b, readOffset |-> 0, writeOffset |-> 0,
                  length |-> 0] : b \in allocUnsafe(ringCapacity)}
    /\ fifo = <<>>
    /\ got = NoResult

\* no CircularBuffer under test
RingOff ==
    /\ ring = [buffer |-> <<>>, readOffset |-> 0, writeOffset |-> 0,
               length |-> 0]
    /\ fifo = <<>>
    /\ got = NoResult

DataChoices == UNION {[1..n -> RingBytes] : n \in 0..MaxData}

Ring_Write(data) ==
    LET newCapacity == NewCapacity(Capacity(ring), ring.length, Len(data))
    IN /\ newCapacity <= MaxRingCapacity
       /\ \E newBuffer \in IF newCapacity > Capacity(ring)
                           THEN allocUnsafe(newCapacity) ELSE {<<>>} :
             ring' = write(ring, data, newBuffer)
       /\ fifo' = fifo \o data
       /\ got' = NoResult
       /\ UNCHANGED exceptRing

Ring_Peek(n) ==
    LET length == MIN(n, ring.length)
    IN /\ \E result \in allocUnsafe(length) :
             got' = [op |-> "peek", result |-> peek(ring, length, result),
                     expected |-> SubSeq(fifo, 1, MIN(n, Len(fifo)))]
       /\ UNCHANGED <<exceptRing, ring, fifo>>

Ring_Read(n) ==
    LET length == MIN(n, ring.length)
    IN /\ \E result \in allocUnsafe(length) :
             got' = [op |-> "read", result |-> peek(ring, length, result),
                     expected |-> SubSeq(fifo, 1, MIN(n, Len(fifo)))]
       /\ ring' = AfterRead(ring, length)
       /\ fifo' = SubSeq(fifo, MIN(n, Len(fifo)) + 1, Len(fifo))
       /\ UNCHANGED exceptRing

Ring_Skip(n) ==
    /\ ring' = AfterRead(ring, MIN(n, ring.length))
    /\ fifo' = SubSeq(fifo, MIN(n, Len(fifo)) + 1, Len(fifo))
    /\ got' = NoResult
    /\ UNCHANGED exceptRing

Ring_Clear ==
    /\ ring' = clear(ring)
    /\ fifo' = <<>>
    /\ got' = NoResult
    /\ UNCHANGED exceptRing

\* the accumulator of a new connection
AccumInit == capacity = ringCapacity

\* socket.on('data'): responseBuffer.write(data), which resizes the buffer
\* when the chunk does not fit, then processResponseBuffer.  A chunk is at
\* most as long as the buffer is to begin with (64 KiB).
Accum_Data(n) ==
    /\ n \in 1..MIN(Len(outbound), ringCapacity)
    /\ outbound' = Slice(outbound, n, Len(outbound))
    /\ capacity' = NewCapacity(capacity, Len(responseBuffer), n)
    /\ LET p == processResponseBuffer(responseBuffer \o Slice(outbound, 0, n),
                                      <<>>)
       IN /\ responseBuffer' = p.buf
          /\ delivered' = delivered \o p.out
    /\ UNCHANGED <<coreVars, lockVars, taskVars, poolVars, acceptVars,
                   ringVars, lastVars, script, sent, inbound, buffer,
                   dropped, msgData, handled>>

(***************************************************************************)
(* ValidatedUser: a pointer to a User that passed validate when the        *)
(* wrapper was made.  The methods of the wrapper change that User in       *)
(* place.                                                                  *)
(***************************************************************************)

\* no ValidatedUser has been made
NoValidated == [username |-> "", email |-> "", password |-> "",
                created_at |-> -1, updated_at |-> -1, is_verified |-> FALSE]

EntityNames == {"", "alice", "bob"}

EntityEmails == {"", "a@x"}

EntityPasswords == {"", "hunter22"}

\* User.validate with its timestamps: the error it returns, "" for nil
User_validate(u) ==
    IF u.username = "" THEN "username must not be empty"
    ELSE IF u.email = "" THEN "email must not be empty"
    ELSE IF u.password = "" THEN "password must not be empty"
    ELSE IF u.created_at > u.updated_at
         THEN "created_at must be before updated_at"
    ELSE ""

\* User.UpdateProfile: the three assignments, then validate
User_UpdateProfile(u, username, email, now) ==
    LET after == [u EXCEPT !.username = username, !.email = email,
                           !.updated_at = now]
    IN [user |-> after, err |-> User_validate(after)]

\* User.MarkAsVerified
User_MarkAsVerified(u, now) ==
    [u EXCEPT !.is_verified = TRUE, !.updated_at = now]

EntityInit ==
    /\ validatedUser = NoValidated
    /\ updateErr = ""
    /\ wall = 0

\* time passes
Entity_Tick ==
    /\ wall < MaxWall
    /\ wall' = wall + 1
    /\ UNCHANGED <<validatedUser, updateErr, exceptLast, genVars, metricVars>>

\* NewValidatedUser on a User of any content: nil and the error when
\* validate fails, else a wrapper around that very User
NewValidatedUser(username, email, password, created, updated) ==
    /\ validatedUser = NoValidated
    /\ LET user == [username |-> username, email |-> email,
                    password |-> password, created_at |-> created,
                    updated_at |-> updated, is_verified |-> FALSE]
       IN /\ updateErr' = User_validate(user)
          /\ validatedUser' = IF User_validate(user) = "" THEN user
                              ELSE NoValidated
    /\ UNCHANGED <<wall, exceptLast, genVars, metricVars>>

\* ValidatedUser.UpdateProfile: User.UpdateProfile on the wrapped User,
\* whose error is returned, then validate once more
ValidatedUser_UpdateProfile(username, email) ==
    /\ validatedUser # NoValidated
    /\ LET r == User_UpdateProfile(validatedUser, username, email, wall)
       IN /\ validatedUser' = r.user
          /\ updateErr' = IF r.err # "" THEN r.err ELSE User_validate(r.user)
    /\ UNCHANGED <<wall, exceptLast, genVars, metricVars>>

\* ValidatedUser.MarkAsVerified
ValidatedUser_MarkAsVerified ==
    /\ validatedUser # NoValidated
    /\ validatedUser' = User_MarkAsVerified(validatedUser, wall)
    /\ updateErr' = ""
    /\ UNCHANGED <<wall, exceptLast, genVars, metricVars>>

(***************************************************************************)
(* The OTP generators.                                                     *)
(***************************************************************************)

\* a character is its code; '0' is 48
Zero == 48

IsDigit(c) == c \in Zero..(Zero + 9)

RECURSIVE DecimalOf(_)
\* the decimal digits of a number that is not negative, as %d prints them
DecimalOf(v) ==
    IF v < 10 THEN <<Zero + v>>
    ELSE Append(DecimalOf(v \div 10), Zero + (v % 10))

\* fmt.Sprintf("%0*d", width, v) for v >= 0: the digits of v, and zeros in
\* front of them when they are fewer than width
Sprintf_0d(width, v) ==
    LET digits == DecimalOf(v)
    IN IF Len(digits) >= width THEN digits
       ELSE [i \in 1..(width - Len(digits)) |-> Zero] \o digits

RECURSIVE BitOr(_, _)
\* a | b
BitOr(a, b) ==
    IF a = 0 THEN b
    ELSE IF b = 0 THEN a
    ELSE (IF a % 2 = 1 \/ b % 2 = 1 THEN 1 ELSE 0)
         + 2 * BitOr(a \div 2, b \div 2)

RECURSIVE BitXor(_, _)
\* a ^ b, which in Go is the exclusive or
BitXor(a, b) ==
    IF a = 0 THEN b
    ELSE IF b = 0 THEN a
    ELSE ((a + b) % 2) + 2 * BitXor(a \div 2, b \div 2)

\* the three generators of the source tree: the one with a configured
\* length, the one with six digits, the one that prints three bytes
Generators == {"configured", "six", "bytes"}

\* what rand.Int(rand.Reader, 10) can return, a few of them
RandDigits == {0, 9}

\* what rand.Read can put into a byte, a few of them
RandBytes == {0, 15, 66, 255}

\* time.Now().UnixNano(), a few of its values
Nanos == {0, 10, 999999}

NoOtpString == <<-1>>

Panicked == <<-2>>

GenInit == otpgen = [generator |-> "none", length |-> 0, otp |-> <<>>,
                     ret |-> NoOtpString]

\* NewOTPService: OTP_LENGTH from the environment, 6 without it; the other
\* two generators always make 6
Gen_Start(generator, length) ==
    /\ otpgen.generator = "none"
    /\ generator \in Generators
    /\ generator # "configured" => length = OTP_LENGTH
    /\ otpgen' = [generator |-> generator, length |-> length, otp |-> <<>>,
                  ret |-> NoOtpString]
    /\ UNCHANGED <<exceptLast, entityVars, metricVars>>

\* GenerateOTP, one turn of its loop with rand.Int returning n: the byte
\* is n + '0'; after the last one string(otp) is returned
GenerateOTP_Digit(n) ==
    /\ otpgen.generator \in {"configured", "six"}
    /\ otpgen.ret = NoOtpString
    /\ LET otp == Append(otpgen.otp, n + Zero)
       IN otpgen' = [otpgen EXCEPT
             !.otp = otp,
             !.ret = IF Len(otp) = otpgen.length THEN otp ELSE @]
    /\ UNCHANGED <<exceptLast, entityVars, metricVars>>

\* the modulus of the fallback: 10^o.OTP_LENGTH, an exclusive or, in the
\* generator with a configured length, 1000000 in the other
FallbackModulus(generator, length) ==
    IF generator = "configured" THEN BitXor(10, length) ELSE 1000000

\* GenerateOTP, rand.Int returned an error: the time is printed
GenerateOTP_Fallback(nanos) ==
    /\ otpgen.generator \in {"configured", "six"}
    /\ otpgen.ret = NoOtpString
    /\ LET modulus == FallbackModulus(otpgen.generator, otpgen.length)
       IN otpgen' = [otpgen EXCEPT !.ret =
             IF modulus = 0 THEN Panicked
             ELSE Sprintf_0d(otpgen.length, nanos % modulus)]
    /\ UNCHANGED <<exceptLast, entityVars, metricVars>>

\* generateOTP: %06d of b[0]<<16 | b[1]<<8 | b[2]%1000000
generateOTP(b0, b1, b2) ==
    /\ otpgen.generator = "bytes"
    /\ otpgen.ret = NoOtpString
    /\ otpgen' = [otpgen EXCEPT !.ret =
          Sprintf_0d(6, BitOr(BitOr(b0 * 65536, b1 * 256), b2 % 1000000))]
    /\ UNCHANGED <<exceptLast, entityVars, metricVars>>

\* the caller has its OTP
Gen_Return ==
    /\ otpgen.ret # NoOtpString
    /\ otpgen' = [generator |-> "none", length |-> 0, otp |-> <<>>,
                  ret |-> NoOtpString]
    /\ UNCHANGED <<exceptLast, entityVars, metricVars>>

(***************************************************************************)
(* The request counters of the client.                                     *)
(***************************************************************************)

\* createEmptyMetrics
createEmptyMetrics == [totalRequests |-> 0, successfulRequests |-> 0,
                       failedRequests |-> 0]

MetricsInit == metrics = createEmptyMetrics

\* serviceMetrics.totalRequests++ and, with failed, failedRequests++ too
Issued(failed) ==
    [metrics EXCEPT !.totalRequests = @ + 1,
                    !.failedRequests = IF failed THEN @ + 1 ELSE @]

Failed == [metrics EXCEPT !.failedRequests = @ + 1]

\* resetMetrics, of which the three counters are kept here
resetMetrics ==
    /\ ~shut
    /\ metrics' = createEmptyMetrics
    /\ UNCHANGED <<exceptMetrics, coreVars>>

\* sendBinaryRequest with its counters: totalRequests++ before anything
\* else; failedRequests++ in the catch around getAvailableConnection and
\* in the catch around socket.write
Metrics_SendBinaryRequest(u) ==
    /\ Fresh(u)
    /\ IF shut
       THEN /\ Reject(u, "TypeError")
            /\ metrics' = Issued(TRUE)
            /\ UNCHANGED <<sends, connection>>
       ELSE IF connection = "up"
       THEN /\ Dispatch(u)
            /\ metrics' = Issued(~MapHas(pendingRequests', u))
            /\ UNCHANGED sends
       ELSE IF connection = "failed"
       THEN /\ Reject(u, "No available connections")
            /\ metrics' = Issued(TRUE)
            /\ UNCHANGED <<sends, connection>>
       ELSE /\ sends' = sends \cup {u}
            /\ connection' = "connecting"
            /\ metrics' = Issued(FALSE)
            /\ UNCHANGED <<pendingRequests, timers, settled, socketOut>>
    /\ UNCHANGED <<exceptMetrics, svcVars, srvVars, server, socketIn,
                   received, shut>>

\* sendBinaryRequest after the 50 ms wait
Metrics_SendBinaryRequest_Waited(u) ==
    /\ u \in sends
    /\ sends' = sends \ {u}
    /\ IF connection = "up"
       THEN /\ Dispatch(u)
            /\ metrics' = IF MapHas(pendingRequests', u) THEN metrics
                          ELSE Failed
       ELSE /\ Reject(u, "No available connections")
            /\ metrics' = Failed
            /\ UNCHANGED connection
    /\ UNCHANGED <<exceptMetrics, svcVars, srvVars, server, socketIn,
                   received, shut>>

\* handleResponse with its counters: successfulRequests++ for the entry it
\* found, whoever made the entry
Metrics_HandleResponse ==
    /\ connection \in {"up", "failed"}
    /\ received < Len(socketIn)
    /\ received' = received + 1
    /\ LET frame == socketIn[received + 1]
           requestId == bytesToUuid(frame.id)
       IN IF MapHas(pendingRequests, requestId)
          THEN /\ HandleFound(requestId, ResponseData(frame.content))
               /\ metrics' = [metrics EXCEPT !.successfulRequests = @ + 1]
          ELSE UNCHANGED <<timers, settled, pendingRequests, metrics>>
    /\ UNCHANGED <<exceptMetrics, svcVars, srvVars, server, socketOut,
                   socketIn, connection, sends, shut>>

\* the setTimeout callbacks with their counters: failedRequests++ in the
\* one of sendBinaryRequest, nothing in the one of pingConnection
Metrics_TimerFires(u) ==
    /\ u \in timers
    /\ timers' = timers \ {u}
    /\ IF ~MapHas(pendingRequests, u)
       THEN UNCHANGED <<pendingRequests, settled, connection, socketIn,
                        socketOut, metrics>>
       ELSE /\ pendingRequests' = MapDelete(pendingRequests, u)
            /\ IF MapGet(pendingRequests, u) = "request"
               THEN /\ settled' = [settled EXCEPT ![u] =
                                 Append(@, Rejected("Request timeout"))]
                    /\ metrics' = Failed
                    /\ UNCHANGED <<connection, socketIn, socketOut>>
               ELSE /\ connection' = "connecting"
                    /\ socketIn' = Destroyed(socketIn)
                    /\ socketOut' = DestroyedOut
                    /\ UNCHANGED <<settled, metrics>>
    /\ UNCHANGED <<exceptMetrics, svcVars, srvVars, server, received, sends,
                   shut>>

LastOff == EntityInit /\ GenInit /\ MetricsInit

MoreOff == AcceptInit /\ RingOff /\ AccumInit /\ LastOff

\* all but the byte-level connection at rest
WireOnly == LockOff /\ TaskOff /\ PoolInit /\ MoreOff

ExtOff == WireOff /\ WireOnly

(***************************************************************************)
(* Specification of the service                                            *)
(***************************************************************************)
NoOTP == [val |-> "", ttl |-> FALSE]

SvcInit ==
    /\ users = {}
    /\ idem = {}
    /\ otpCache = [e \in Emails |-> NoOTP]
    /\ userCache = [e \in Emails |-> {}]
    /\ attempts = [k \in RLKeys |-> 0]
    /\ rlSeen = [k \in RLKeys |-> FALSE]
    /\ outbox = {}
    /\ call = [c \in Calls |-> Idle]
    /\ started = 0
    /\ bg = {}
    /\ tokenCache = {}
    /\ ProfInit
    /\ TimeOff

NetInit == SrvInit /\ CliInit /\ ExtOff

Init == SvcInit /\ NetInit

\* the handler steps that do not touch the idempotency store
SendOTPSteps(c) ==
    \/ SendOTP_Find(c)
    \/ SendOTP_Rate(c)
    \/ SendOTP_Get(c)
    \/ SendOTP_Set(c)
    \/ SendOTP_Mail(c)
    \/ SendOTP_Del(c)
    \/ SendOTP_User(c)

VerifyOTPSteps(c) ==
    \/ VerifyOTP_Rate(c)
    \/ VerifyOTP_Get(c)
    \/ VerifyOTP_User(c)
    \/ VerifyOTP_Insert(c)
    \/ VerifyOTP_ReadBack(c)
    \/ VerifyOTP_DelOTP(c)
    \/ VerifyOTP_DelUser(c)

CreateUserSteps(c) ==
    \/ CreateUser_FindUsername(c)
    \/ CreateUser_FindEmail(c)
    \/ CreateUser_Insert(c)
    \/ CreateUser_ReadBack(c)

LoginSteps ==
    \/ \E c \in Calls : StartLogin(c)
    \/ \E c \in Calls : LoginUser(c)
    \/ \E t \in bg : Login_SetToken(t)
    \/ \E t \in bg : Login_UpdateTokens(t)

Environment ==
    \/ \E e \in Emails : ExpireOTP(e)
    \/ \E e \in Emails : ExpireUser(e)

Next ==
    \/ \E c \in Calls : StartSendOTP(c, IdemKeys)
    \/ \E c \in Calls : SendOTP_Idem(c)
    \/ \E c \in Calls : SendOTPSteps(c)
    \/ \E c \in Calls : SendOTP_Rec(c)
    \/ \E c \in Calls : StartVerifyOTP(c, IdemKeys)
    \/ \E c \in Calls : VerifyOTP_Idem(c)
    \/ \E c \in Calls : VerifyOTPSteps(c)
    \/ \E c \in Calls : VerifyOTP_Rec(c)
    \/ \E c \in Calls : StartRegister(c, IdemKeys)
    \/ \E c \in Calls : CreateUser_Idem(c)
    \/ \E c \in Calls : CreateUserSteps(c)
    \/ \E c \in Calls : CreateUser_Rec(c)
    \/ LoginSteps
    \/ Environment

\* every method of the service, from the empty stores
Spec == Init /\ [][Next]_vars

(***************************************************************************)
(* The OTP flow with registrations already pending: the state that earlier *)
(* send_otp calls (numbered 0 and -1) leave behind                         *)
(***************************************************************************)
PendingCode == "111111"

\* which registrations are pending: one, two with the same username, two
\* with different usernames
PendingChoices ==
    {[e \in Emails |-> IF e = "a@x" THEN "alice" ELSE ""],
     [e \in Emails |-> "alice"],
     [e \in Emails |-> IF e = "a@x" THEN "alice" ELSE "bob"]}

\* otp:<e>, user:<e>, the mail and the rate-limiter entry after one
\* successful send_otp(u, e, p)
PendingState(pend) ==
      /\ users = {}
      /\ idem = {}
      /\ otpCache = [e \in Emails |->
            IF pend[e] = "" THEN NoOTP ELSE [val |-> PendingCode, ttl |-> TRUE]]
      /\ userCache = [e \in Emails |->
            IF pend[e] = "" THEN {}
            ELSE {NewUser(EmailNo(e), pend[e], e, "pw1")}]
      /\ attempts = [k \in RLKeys |->
            IF k \in Emails /\ pend[k] # "" THEN 1 ELSE 0]
      /\ rlSeen = [k \in RLKeys |-> k \in Emails /\ pend[k] # ""]
      /\ outbox = {[call |-> EmailNo(e), email |-> e, otp |-> PendingCode,
                    live |-> TRUE] : e \in {x \in Emails : pend[x] # ""}}
      /\ call = [c \in Calls |-> Idle]
      /\ started = 0
      /\ bg = {}
      /\ tokenCache = {}
      /\ ProfInit
      /\ TimeOff
      /\ NetInit

PendingInit == \E pend \in PendingChoices : PendingState(pend)

\* one registration pending, for a@x
OnePendingInit ==
    PendingState([e \in Emails |-> IF e = "a@x" THEN "alice" ELSE ""])

\* send_otp and verify_otp without idempotency keys
NextOTP ==
    \/ \E c \in Calls : StartSendOTP(c, {""})
    \/ \E c \in Calls : SendOTPSteps(c)
    \/ \E c \in Calls : StartVerifyOTP(c, {""})
    \/ \E c \in Calls : VerifyOTPSteps(c)
    \/ Environment

SpecOTP == PendingInit /\ [][NextOTP]_vars

\* Redis enforces the TTL of every key it was given one for
SpecOTPFair ==
    /\ OnePendingInit /\ [][NextOTP]_vars
    /\ \A e \in Emails : WF_vars(ExpireOTP(e)) /\ WF_vars(ExpireUser(e))

\* verify_otp, register_user and login_user, with idempotency keys
NextAcct ==
    \/ \E c \in Calls : StartVerifyOTP(c, IdemKeys)
    \/ \E c \in Calls : VerifyOTP_Idem(c)
    \/ \E c \in Calls : VerifyOTPSteps(c)
    \/ \E c \in Calls : VerifyOTP_Rec(c)
    \/ \E c \in Calls : StartRegister(c, IdemKeys)
    \/ \E c \in Calls : CreateUser_Idem(c)
    \/ \E c \in Calls : CreateUserSteps(c)
    \/ \E c \in Calls : CreateUser_Rec(c)
    \/ LoginSteps
    \/ Environment

SpecAcct == PendingInit /\ [][NextAcct]_vars

\* verify_otp, register_user and login_user without idempotency keys
NextUsers ==
    \/ \E c \in Calls : StartVerifyOTP(c, {""})
    \/ \E c \in Calls : VerifyOTPSteps(c)
    \/ \E c \in Calls : StartRegister(c, {""})
    \/ \E c \in Calls : CreateUserSteps(c)
    \/ LoginSteps
    \/ Environment

SpecUsers == PendingInit /\ [][NextUsers]_vars

\* the state at time 0 after send_otp(alice, a@x, pw1) was admitted and
\* succeeded, and, with verified, after the verify_otp that followed it
RateState(verified) ==
    /\ users = IF verified
               THEN {CreateRow(MarkAsVerified(
                        NewUser(EmailNo("a@x"), "alice", "a@x", "pw1")), 0)}
               ELSE {}
    /\ idem = {}
    /\ otpCache = [e \in Emails |->
          IF e = "a@x" /\ ~verified THEN [val |-> PendingCode, ttl |-> TRUE]
          ELSE NoOTP]
    /\ userCache = [e \in Emails |->
          IF e = "a@x" /\ ~verified
          THEN {NewUser(EmailNo(e), "alice", e, "pw1")} ELSE {}]
    /\ attempts = [k \in RLKeys |->
          IF k = "a@x" \/ (verified /\ k = "verify:a@x") THEN 1 ELSE 0]
    /\ rlSeen = [k \in RLKeys |->
          k = "a@x" \/ (verified /\ k = "verify:a@x")]
    /\ outbox = {[call |-> EmailNo("a@x"), email |-> "a@x",
                  otp |-> PendingCode, live |-> ~verified]}
    /\ call = [c \in Calls |-> Idle]
    /\ started = 0
    /\ bg = {}
    /\ tokenCache = {}
    /\ ProfInit
    /\ clock = [on |-> TRUE, now |-> 0]
    /\ lastTry = [k \in RLKeys |->
          IF k = "a@x" \/ (verified /\ k = "verify:a@x") THEN 0 ELSE 0 - 1]
    /\ rlLog = <<[key |-> "a@x", at |-> 0, ok |-> TRUE, call |-> 0]>>
                \o (IF verified
                    THEN <<[key |-> "verify:a@x", at |-> 0, ok |-> TRUE,
                            call |-> 0]>>
                    ELSE <<>>)
    /\ NetInit

RateInit == \E verified \in BOOLEAN : RateState(verified)

\* send_otp without idempotency keys, under a running clock
NextRate ==
    \/ \E c \in Calls : StartSendOTP(c, {""})
    \/ \E c \in Calls : SendOTPSteps(c)
    \/ Tick

SpecRate == RateInit /\ [][NextRate]_vars

\* verify_otp without idempotency keys, and get_profile
ProfileSteps ==
    \/ \E q \in ProfileCalls : StartGetProfile(q)
    \/ \E q \in ProfileCalls : GetProfile_Cache(q)
    \/ \E q \in ProfileCalls : GetProfile_DB(q)
    \/ \E q \in ProfileCalls : GetProfile_Set(q)
    \/ \E id \in ProfileIds : ExpireProfile(id)

NextProfile ==
    \/ \E c \in Calls : StartVerifyOTP(c, {""})
    \/ \E c \in Calls : VerifyOTPSteps(c)
    \/ ProfileSteps

SpecProfile == PendingInit /\ [][NextProfile]_vars

(***************************************************************************)
(* Specifications of the transport                                         *)
(***************************************************************************)
NextServer ==
    \/ \E c \in Conns : Accept(c)
    \/ \E c \in Conns : ClientSend(c)
    \/ \E c \in Conns : ClientClose(c)
    \/ \E c \in Conns : Reader_Select(c)
    \/ \E c \in Conns : Reader_Read(c)
    \/ \E c \in Conns : Reader_Process(c)
    \/ Limiter_Refill
    \/ \E w \in Workers : Worker_Exit(w)
    \/ \E w \in Workers : Worker_Take(w)
    \/ \E w \in Workers : Worker_Handle(w)
    \/ \E w \in Workers : Worker_Write(w)
    \/ Stop_Close
    \/ Stop_Wait

SpecServer == Init /\ [][NextServer]_vars

NextClient ==
    \/ \E u \in Uuids : SendBinaryRequest(u)
    \/ \E u \in Uuids : SendBinaryRequest_Waited(u)
    \/ \E u \in Uuids : PingConnection(u)
    \/ ServerFrame
    \/ HandleResponse
    \/ \E u \in Uuids : TimerFires(u)
    \/ Shutdown
    \/ Socket_Connect
    \/ Socket_Error
    \/ Socket_Close

SpecClient == Init /\ [][NextClient]_vars

\* the 'close' event of a socket whose peer is gone, or that had an error
Socket_Close_Due == (~server.peer \/ connection = "failed") /\ Socket_Close

\* the request-ids of two requests
TwoUuids == {<<0, 10>>, <<10, 0>>}

\* the client against a service that dies and comes back
NextReconnect ==
    \/ \E u \in TwoUuids : SendBinaryRequest(u)
    \/ \E u \in TwoUuids : SendBinaryRequest_Waited(u)
    \/ ServerFrame
    \/ HandleResponse
    \/ \E u \in TwoUuids : TimerFires(u)
    \/ Socket_Connect
    \/ Socket_Error
    \/ Socket_Close
    \/ Connect_Fails
    \/ Reconnect
    \/ ServerDies
    \/ ServerReturns

\* timers fire, a reachable service accepts a connection, and a socket whose
\* peer is gone or that had an error is closed
SpecReconnect ==
    /\ Init /\ [][NextReconnect]_vars
    /\ \A u \in TwoUuids : WF_vars(TimerFires(u))
    /\ WF_vars(Socket_Connect)
    /\ WF_vars(Reconnect)
    /\ WF_vars(Socket_Close_Due)

(***************************************************************************)
(* Claims about the service                                                *)
(***************************************************************************)
Done(c) == call[c].res.done

Concurrent(c, d) == c \in call[d].co \/ d \in call[c].co

ConflictMessages == {"username already exists", "email already exists"}

\* the call got as far as the insert: it matched the OTP, found the
\* snapshot and the store answered the insert
RacedOnInsert(c) ==
    \/ call[c].res.ok
    \/ call[c].res.msg = "failed to register user: unique violation"

\* C3: of two concurrent verify_otp calls for the same email that both carry
\* the correct OTP and both reach the insert, exactly one succeeds and the
\* other returns `username already exists` or `email already exists`
C3_RaceGivesConflictKind ==
    \A c, d \in Calls :
        ( /\ c # d /\ Concurrent(c, d)
          /\ call[c].method = "verify_otp" /\ call[d].method = "verify_otp"
          /\ call[c].email = call[d].email
          /\ call[c].otp = PendingCode /\ call[d].otp = PendingCode
          /\ Done(c) /\ Done(d)
          /\ RacedOnInsert(c) /\ RacedOnInsert(d)
          /\ call[c].res.ok )
        => /\ ~call[d].res.ok
           /\ call[d].res.msg \in ConflictMessages

\* C4: no two rows of the user store share a username or an email
C4_UsersUnique ==
    \A r1, r2 \in users :
        r1 # r2 => r1.username # r2.username /\ r1.email # r2.email

\* two calls passed their advisory pre-checks, one inserted and the unique
\* index refused the other
C4_Witness ==
    \E c, d \in Calls :
        /\ c # d
        /\ \E r \in users : r.by = c
        /\ Done(d)
        /\ call[d].res.msg \in {"unique violation",
                                "failed to register user: unique violation"}
        /\ C4_UsersUnique

\* C5: two verify_otp calls that carry the same non-empty idempotency key
\* (and the same email and OTP), the second made after the first returned,
\* get identical responses
C5_SameKeySameResponse ==
    \A c, d \in Calls :
        ( /\ c < d /\ ~Concurrent(c, d)
          /\ call[c].method = "verify_otp" /\ call[d].method = "verify_otp"
          /\ call[c].key # "" /\ call[c].key = call[d].key
          /\ call[c].email = call[d].email /\ call[c].otp = call[d].otp
          /\ Done(c) /\ Done(d) )
        => call[c].res = call[d].res

\* the call performed the side effect its idempotency key protects: the
\* OTP mail of send_otp, the row insert of verify_otp and register_user
Performed(c) ==
    IF call[c].method = "send_otp"
    THEN \E m \in outbox : m.call = c
    ELSE \E r \in users : r.by = c

SameRequest(c, d) ==
    /\ call[c].method = call[d].method
    /\ call[c].key = call[d].key
    /\ call[c].username = call[d].username
    /\ call[c].email = call[d].email
    /\ call[c].password = call[d].password
    /\ call[c].otp = call[d].otp

\* C6: of two calls that make the same request under the same non-empty
\* idempotency key, at most one performs the protected side effect
C6_SideEffectAtMostOnce ==
    \A c, d \in Calls :
        (c # d /\ call[c].key # "" /\ SameRequest(c, d))
        => ~(Performed(c) /\ Performed(d))

\* C7: the mails dispatched for one email while its otp:<email> entry has
\* not expired all carry the same code, and the cache holds that code
C7_ResendSameCode ==
    \A m1, m2 \in outbox :
        (m1.live /\ m2.live /\ m1.email = m2.email /\ m1.call # m2.call)
        => /\ m1.otp = m2.otp
           /\ otpCache[m1.email].val = m1.otp

\* C8: send_otp writes no row; verify_otp writes a row only for a matched
\* OTP and a found snapshot; a verify_otp that returned an error wrote none
C8_WriteOnlyOnSuccess ==
    \A r \in users :
        /\ call[r.by].method # "send_otp"
        /\ call[r.by].method = "verify_otp" =>
              /\ r.is_verified
              /\ r.email = call[r.by].email
              /\ ~(Done(r.by) /\ ~call[r.by].res.ok)

\* C9: login_user issues a token only for a verified user
C9_LoginOnlyVerified ==
    \A c \in Calls :
        (call[c].method = "login_user" /\ Done(c) /\ call[c].res.ok)
        => \A ur \in call[c].res.body.result : ur.is_verified

VerifiedOK(e) ==
    {c \in Calls : /\ call[c].method = "verify_otp" /\ call[c].email = e
                   /\ Done(c) /\ call[c].res.ok}

CacheAbsent(e) == otpCache[e].val = "" /\ userCache[e] = {}

\* C10: once a verify_otp for email E has returned success, otp:E and
\* user:E are eventually absent from the cache, and no second verify_otp
\* for E succeeds
C10_EventuallyAbsent ==
    /\ \A e \in Emails : (VerifiedOK(e) # {}) ~> CacheAbsent(e)
    /\ [](\A e \in Emails : Cardinality(VerifiedOK(e)) <= 1)

\* a verification succeeded and both cache entries are gone
C10_Witness ==
    \E e \in Emails : VerifiedOK(e) # {} /\ CacheAbsent(e)

(***************************************************************************)
(* Claims about the transport                                              *)
(***************************************************************************)
\* the response frames written to connection c that carry request-id n
Responses(c, n) == SelectSeq(conns[c].out, LAMBDA r : r.id = n)

\* the frames the reader parsed as complete request frames
Parsed(c, n) == frames[c][n].stage \in {"queued", "handling", "finished"}

\* neither side has closed the connection
Live(c) == conns[c].state = "open" /\ conns[c].peer = "open"

\* C1: a request frame the reader parsed never has two response frames with
\* its request-id on its connection, and once the server is through with it
\* (the reader refused it or a worker handled it) it has exactly one, unless
\* the connection has been dropped
C1_ExactlyOneResponse ==
    \A c \in Conns, n \in FrameNos :
        Parsed(c, n) =>
            /\ Len(Responses(c, n)) <= 1
            /\ (frames[c][n].stage = "finished" /\ Live(c))
                   => Len(Responses(c, n)) = 1

\* the request was written to the socket, its timeout has not fired and
\* nothing has settled it
Outstanding(u) ==
    /\ \E r \in socketOut : r.id = uuidToBytes(u)
    /\ u \in timers
    /\ settled[u] = <<>>

\* the client takes the next response frame off the socket
Receives == received' = received + 1

\* C2: a response frame the client receives resolves the outstanding
\* request with the same request-id with the frame's decoded body and
\* settles nothing else; a frame whose request is no longer outstanding
\* (timed out, rejected) is discarded; no request is settled twice
C2_ResponseResolvesItsRequest ==
    /\ [](\A u \in Uuids : Len(settled[u]) <= 1)
    /\ [][Receives =>
            LET frame == socketIn[received + 1] IN
            \A u \in Uuids :
                IF uuidToBytes(u) = frame.id /\ Outstanding(u)
                THEN settled'[u] = <<Resolved(ResponseData(frame.content))>>
                ELSE settled'[u] = settled[u]]_vars

\* one request was resolved by its response, and the response of a request
\* that had timed out was received and dropped
C2_Witness ==
    \E u, v \in Uuids :
        /\ u # v
        /\ settled[u] = <<Resolved([status |-> "success"])>>
        /\ settled[v] = <<Rejected("Request timeout")>>
        /\ \E i \in 1..received : socketIn[i].id = uuidToBytes(v)

(***************************************************************************)
(* Stored passwords                                                        *)
(***************************************************************************)
\* the plaintexts callers have submitted (register_user, send_otp) and the
\* password of a snapshot an earlier send_otp left in the cache
Submitted ==
    {call[c].password : c \in {d \in Calls : call[d].method \in
                                   {"register_user", "send_otp"}}}
    \cup {u.password : u \in UNION {userCache[e] : e \in Emails}}
    \cup Passwords

\* C11: every password column written by register_user or verify_otp is the
\* bcrypt hash of a submitted password and equals no submitted plaintext
C11_StoredPasswordIsHash ==
    \A r \in users :
        /\ r.password \in {HashPassword(p) : p \in Passwords}
        /\ r.password \notin Submitted

\* one row written by verify_otp and one written by register_user
C11_Witness ==
    /\ \E r \in users : call[r.by].method = "verify_otp"
    /\ \E r \in users : call[r.by].method = "register_user"

(***************************************************************************)
(* Profiles                                                                *)
(***************************************************************************)
ProfileOK(q) == profile[q].res.done /\ profile[q].res.ok

HasPassword(ur) == "password" \in DOMAIN ur /\ ur.password # ""

\* C12: no get_profile result, from the cache or from the user store,
\* carries a password value
C12_ProfileHasNoPassword ==
    \A q \in ProfileCalls :
        ProfileOK(q) => \A ur \in profile[q].res.body.result : ~HasPassword(ur)

\* one profile served from the store and the same one served from the cache
C12_Witness ==
    \E p, q \in ProfileCalls :
        /\ ProfileOK(p) /\ profile[p].src = "store"
        /\ ProfileOK(q) /\ profile[q].src = "cache"
        /\ profile[p].id = profile[q].id
        /\ \E r \in users : r.id = profile[p].id /\ r.password # ""

(***************************************************************************)
(* The OTP rate limit                                                      *)
(***************************************************************************)
TooMany == "too many OTP requests, please try again later"

\* the decisions among the first n that admitted a call for key k and are
\* no older than one window at time t
AdmittedInWindow(k, n, t) ==
    {j \in 1..n : /\ rlLog[j].key = k /\ rlLog[j].ok
                  /\ t - rlLog[j].at <= window}

\* the claim as it stands: once maxTries send_otp calls for an email have been
\* admitted within one window, every further send_otp for that email inside
\* the window fails with the rate-limit error
C13_EveryFurtherCallFails ==
    \A c \in Calls :
        ( /\ call[c].method = "send_otp" /\ Done(c)
          /\ Cardinality(AdmittedInWindow(call[c].email, call[c].rl0,
                                          clock.now)) >= maxTries )
        => call[c].res.msg = TooMany

\* a send_otp call is refused by the limiter in this step
Refused(c) ==
    /\ call[c].pc = "s_rate"
    /\ call'[c].pc = "done"

\* C13: once maxTries send_otp calls for an email have been admitted within
\* one window, every further send_otp for that email inside the window that
\* gets as far as the rate limiter is refused with the rate-limit error, and
\* the refused call generates, caches and dispatches nothing
C13_LimitedCallsAreRefused ==
    /\ [](\A i \in 1..Len(rlLog) :
            Cardinality(AdmittedInWindow(rlLog[i].key, i - 1, rlLog[i].at))
                >= maxTries
            => /\ ~rlLog[i].ok
               /\ rlLog[i].call \in Calls
                    => /\ call[rlLog[i].call].res.msg = TooMany
                       /\ \A m \in outbox : m.call # rlLog[i].call)
    /\ [][\A c \in Calls : Refused(c) =>
              /\ call'[c].res = Err(TooMany)
              /\ UNCHANGED <<otpCache, userCache, outbox, users>>]_vars

\* maxTries calls were admitted for a@x within one window and a further call
\* was refused
C13_Witness ==
    \E i \in 1..Len(rlLog) :
        /\ rlLog[i].key = "a@x" /\ ~rlLog[i].ok
        /\ Cardinality(AdmittedInWindow("a@x", i - 1, rlLog[i].at))
               >= maxTries
        /\ call[rlLog[i].call].res.msg = TooMany

(***************************************************************************)
(* A wrong OTP                                                             *)
(***************************************************************************)
WrongOTP == "OTP verification failed: wrong OTP verification"

\* call c failed on a wrong OTP and call d, for the same email and with the
\* code that is in the cache, was started after c had returned
RetryAfterWrongOTP(c, d) ==
    /\ call[c].method = "verify_otp" /\ call[d].method = "verify_otp"
    /\ call[c].email = call[d].email
    /\ c < d /\ c \notin call[d].co
    /\ Done(c) /\ call[c].res.msg = WrongOTP
    /\ call[d].otp = PendingCode

\* what the TTLs, the attempt limit or a failing database make of a call
NotDueToFirstCall ==
    {"OTP expired or not found", "user data expired or not found",
     "too many verification attempts, please try again later",
     "failed to register user: read back failed"}

\* C14: a verify_otp that fails on a wrong OTP changes neither otp:<email>,
\* user:<email> nor the user store, and a following verify_otp with the
\* right OTP succeeds unless a TTL, the attempt limit or the database
\* stops it
C14_WrongOTPLeavesStateUntouched ==
    /\ [](\A c, d \in Calls :
            (RetryAfterWrongOTP(c, d) /\ Done(d))
            => call[d].res.ok \/ call[d].res.msg \in NotDueToFirstCall)
    /\ [][\A c \in Calls :
            (call[c].pc = "v_get" /\ call'[c].res.msg = WrongOTP)
            => UNCHANGED <<otpCache, userCache, users>>]_vars

\* a wrong OTP was refused and the right one then created the user
C14_Witness ==
    \E c, d \in Calls :
        /\ RetryAfterWrongOTP(c, d)
        /\ Done(d) /\ call[d].res.ok
        /\ \E r \in users : r.by = d /\ r.email = call[d].email

\* C15: a verify_otp whose OTP differs from the cached, unexpired OTP fails
\* with the message "invalid OTP"
C15_MismatchIsInvalidOTP ==
    [][\A c \in Calls :
          ( /\ call[c].pc = "v_get" /\ call'[c].pc # "v_get"
            /\ otpCache[call[c].email].val # ""
            /\ call[c].otp # otpCache[call[c].email].val )
          => call'[c].res = Err("invalid OTP")]_vars

\* C16: a verify_otp whose insert is refused by a unique index (two pending
\* registrations for different emails under one username, say) returns
\* `username already exists` or `email already exists`
C16_RefusedInsertIsConflict ==
    [][\A c \in Calls :
          ( /\ call[c].method = "verify_otp"
            /\ call[c].pc = "v_ins" /\ call'[c].pc # "v_ins"
            /\ \E u \in call[c].luser : UniqueViolation(CreateRow(u, c)) )
          => call'[c].res.msg \in ConflictMessages]_vars

(***************************************************************************)
(* A failed e-mail dispatch                                                *)
(***************************************************************************)
\* the step in which send_otp call c leaves after its dispatch failed
DispatchFailed(c) == call[c].pc = "s_del" /\ call'[c].pc # "s_del"

Busy(w) == workers[w].pc \in {"handle", "write"}

\* C18: after Stop is invoked no new connection is accepted, every message
\* in the work queue is processed and answered before the workers exit, and
\* the connections are closed only after that drain
C18_StopDrainsThenCloses ==
    /\ [][\A c \in Conns :
             (done = "closed" /\ conns[c].state = "none")
             => conns'[c].state = "none"]_vars
    /\ [][\A w \in Workers :
             (workers[w].pc # "exited" /\ workers'[w].pc = "exited")
             => messageQueue.items = <<>>]_vars
    /\ [][\A c \in Conns :
             (done = "closed" /\ conns[c].state = "open"
                /\ conns'[c].state = "closed")
             => /\ messageQueue.items = <<>>
                /\ \A w \in Workers : ~Busy(w)]_vars

(***************************************************************************)
(* ServiceClient.shutdown                                                  *)
(***************************************************************************)
ShuttingDown == Rejected("Service client shutting down")

\* the rejections shutdown() has made on request u
ShutdownRejections(u) ==
    Cardinality({i \in DOMAIN settled[u] : settled[u][i] = ShuttingDown})

\* C20: once shutdown() has returned, every request that was pending has
\* been rejected exactly once, with the shutting-down error; no timer of
\* such a request fires afterwards; and the client holds no connection and
\* opens none
C20_ShutdownIsFinal ==
    /\ [][\A u \in Uuids :
             (~shut /\ shut' /\ MapHas(pendingRequests, u))
             => /\ settled'[u] = <<ShuttingDown>>
                /\ u \notin timers']_vars
    /\ [][\A u \in Uuids :
             ShutdownRejections(u) > 0
             => /\ settled'[u] = settled[u]
                /\ u \notin timers']_vars
    /\ [](shut => connection \notin {"up", "failed"})

(***************************************************************************)
(* The service dies under the client                                       *)
(***************************************************************************)
\* C19: a request that is outstanding when the service dies is settled and
\* not left pending, by its timeout if no response frame is left to read;
\* and whenever the service is reachable again, the reconnect schedule
\* gives the client an available connection, unless the service dies again
C19_TimeoutThenReconnect ==
    /\ \A u \in Uuids : (u \in server.lost) ~> (settled[u] # <<>>)
    /\ [][\A u \in Uuids :
             (u \in server.lost /\ ~server.up /\ received = Len(socketIn)
                /\ settled'[u] # settled[u])
             => settled'[u] = <<Rejected("Request timeout")>>]_vars
    /\ [](server.up => <>((connection = "up" /\ server.peer) \/ ~server.up))

\* request u was outstanding when the service died and was rejected by its
\* timeout; the service is back, the client is connected again, and request
\* v, sent on the new connection, was resolved
C19_Witness ==
    \E u, v \in Uuids :
        /\ u \in server.lost /\ v \notin server.lost
        /\ settled[u] = <<Rejected("Request timeout")>>
        /\ \E r \in socketOut : r.id = uuidToBytes(u) /\ ~r.open
        /\ \E r \in socketOut : r.id = uuidToBytes(v) /\ r.open
        /\ Len(settled[v]) = 1 /\ settled[v][1].kind = "resolve"
        /\ server.up /\ server.peer /\ connection = "up"

(***************************************************************************)
(* Requests on one connection, byte by byte                                *)
(***************************************************************************)
\* the method names the documentation lists, one it does not, and none
MethodNames ==
    {S_ping, S_register_user, S_register, S_send_otp, S_verify_otp,
     S_login_user, S_login, S_get_profile, S_profile, S_nope, <<>>}

FirstId == FullUuid(<<0, 10>>)

SecondId == FullUuid(<<10, 0>>)

\* one request, or two of which the second carries {}
CodecScripts ==
    LET first == {Item("request", FirstId, m, c) :
                      m \in MethodNames, c \in JSONDocuments}
        second == {Item("request", SecondId, m, S_braces) : m \in MethodNames}
    IN {<<a>> : a \in first} \union {<<a, b>> : a \in first, b \in second}

CodecInit ==
    /\ SvcInit
    /\ SrvInit
    /\ CliInit
    /\ WireOnly
    /\ \E s \in CodecScripts : WireInit(s)

NextCodec ==
    \/ Client_Write
    \/ \E n \in 1..readBufferSize : Conn_Read(n)
    \/ Worker_Message

SpecCodec == CodecInit /\ [][NextCodec]_vars

PaddedJSON(n) == <<34>> \o [i \in 1..(n - 2) |-> 97] \o <<34>>

\* bytes without a magic pair, one fewer than the shortest response
Garbage == [i \in 1..(MIN_RESPONSE_SIZE - 1) |-> 0]

\* the content with which a ping request is exactly size bytes long
ContentFor(size) ==
    PaddedJSON(size - (headerSize + versionSize + uuidSize + methodLenSize
                       + Len(S_ping) + contentLenSize))

\* what a peer may write to the service: a small request, one of exactly
\* maxBufferSize bytes, one a byte longer, and garbage
RequestItems(id) ==
    {Item("request", id, S_ping, S_braces),
     Item("request", id, S_ping, ContentFor(maxBufferSize)),
     Item("request", id, S_ping, ContentFor(maxBufferSize + 1)),
     Item("raw request", id, <<>>, Garbage)}

\* what a peer may write to the client: a response as the service encodes
\* it, one with a method length of 0, one with a method name, and garbage
ResponseItems(id) ==
    {Item("response", id, <<>>, S_braces),
     Item("response with method", id, <<>>, S_braces),
     Item("response with method", id, S_ping, S_braces),
     Item("raw response", id, <<>>, Garbage)}

FramingScripts ==
    LET one(I(_)) == {<<a>> : a \in I(FirstId)}
        two(I(_)) == {<<a, b>> : a \in I(FirstId), b \in I(SecondId)}
    IN one(RequestItems) \union two(RequestItems)
           \union one(ResponseItems) \union two(ResponseItems)

FramingInit ==
    /\ SvcInit
    /\ SrvInit
    /\ CliInit
    /\ WireOnly
    /\ \E s \in FramingScripts : WireInit(s)

NextFraming ==
    \/ Client_Write
    \/ Service_Write
    \/ \E n \in 1..readBufferSize : Conn_Read(n)
    \/ Worker_Message
    \/ \E n \in 1..maxBufferSize : Client_Data(n)

SpecFraming == FramingInit /\ [][NextFraming]_vars

\* everything the script holds has been written, read and worked off
Quiet ==
    /\ sent = Len(script)
    /\ inbound = <<>>
    /\ outbound = <<>>
    /\ msgData = <<>>

\* a frame in the documented layout: magic, version, request-id, method
\* length n, n method bytes, content length, content
Documented(bytes) ==
    LET lenAt == headerSize + versionSize + uuidSize + methodLenSize
                     + bytes[headerSize + versionSize + uuidSize + 1]
    IN /\ Len(bytes) >= headerSize + versionSize + uuidSize + methodLenSize
       /\ Len(bytes) >= lenAt + contentLenSize
       /\ Len(bytes) = lenAt + contentLenSize
                           + Uint32LE(Slice(bytes, lenAt, lenAt + contentLenSize))

\* C22: when the responses a peer wrote all have a method-length byte (0, or
\* n followed by n method bytes), the client hands each of them to
\* handleResponse with its request-id and exactly its content; and every
\* response the service encodes has that layout
C22_BothShapesAccepted ==
    /\ (Quiet /\ \A k \in 1..Len(script) :
                     script[k].kind = "response with method") =>
          delivered = [k \in 1..Len(script) |->
                          [requestId |-> script[k].requestId,
                           content |-> script[k].content]]
    /\ \A k \in 1..sent :
          script[k].kind = "response" => Documented(Wire(script[k]))

\* the first half of C22 alone
C22_ClientAccepts ==
    (Quiet /\ \A k \in 1..Len(script) :
                 script[k].kind = "response with method") =>
        delivered = [k \in 1..Len(script) |->
                        [requestId |-> script[k].requestId,
                         content |-> script[k].content]]

\* the script holds only requests of at most maxBufferSize bytes
AllWithinLimit ==
    \A k \in 1..Len(script) :
        /\ script[k].kind = "request"
        /\ Len(Wire(script[k])) <= maxBufferSize

\* the k-th item is a request of more than maxBufferSize bytes
OverLimit(k) ==
    /\ script[k].kind = "request"
    /\ Len(Wire(script[k])) > maxBufferSize

\* a request longer than maxBufferSize is never handed to a worker, and the
\* read that completes it drops the connection
C23_OverLimitRejected ==
    \A k \in 1..Len(script) :
        OverLimit(k) =>
            /\ \A i \in 1..Len(handled) :
                  handled[i].requestID # uuidToBuffer(script[k].requestId)
            /\ \A i \in 1..Len(msgData) :
                  Len(msgData[i]) <= maxBufferSize
            /\ (sent = Len(script) /\ inbound = <<>>) => dropped # ""

\* C23: requests of up to exactly maxBufferSize bytes are all processed and
\* the connection stays up, whatever the reads and whatever frame precedes
\* or follows; a request one byte longer is rejected by dropping the
\* connection
C23_ExactLimitAccepted ==
    /\ AllWithinLimit =>
          /\ dropped = ""
          /\ Quiet => Len(handled) = Len(script)
    /\ C23_OverLimitRejected

\* the k-th item is a request whose method-length byte is 0
NoMethod(k) == script[k].kind = "request" /\ script[k].method = <<>>

\* no handler of the method switch runs for a request without a method
C24_NoHandlerRuns ==
    \A k \in 1..Len(script) :
        NoMethod(k) =>
            \A i \in 1..Len(handled) :
                handled[i].requestID = uuidToBuffer(script[k].requestId) =>
                    handled[i].ran = ""

\* C24: a request whose method-length byte is 0 is a protocol error: it is
\* not copied out as a message, no worker takes it up and nothing is
\* answered to it; and no method handler runs for it
C24_NoMethodIsProtocolError ==
    /\ \A k \in 1..Len(script) :
          NoMethod(k) =>
              /\ \A i \in 1..Len(msgData) : msgData[i] # Wire(script[k])
              /\ \A i \in 1..Len(handled) :
                    handled[i].requestID # uuidToBuffer(script[k].requestId)
    /\ C24_NoHandlerRuns

\* the script is garbage followed by a well-formed frame of the given kind
GarbageThen(raw, kind) ==
    /\ Len(script) = 2
    /\ script[1].kind = raw
    /\ script[2].kind = kind
    /\ Len(Wire(script[2])) <= maxBufferSize

\* the client finds the response that follows garbage, however the bytes
\* arrive
C25_ClientResyncs ==
    (Quiet /\ GarbageThen("raw response", "response")) =>
        delivered = <<[requestId |-> script[2].requestId,
                       content |-> script[2].content]>>

\* the service finds the request that follows garbage, however the bytes
\* arrive
C25_ServiceResyncs ==
    GarbageThen("raw request", "request") =>
        /\ dropped = ""
        /\ Quiet =>
              /\ Len(handled) = 1
              /\ handled[1].requestID = uuidToBuffer(script[2].requestId)

\* C25: after bytes that are no frame the receiver, client or service, goes
\* on at the next magic pair, so the well-formed frame that follows the
\* garbage is parsed and delivered in every split of the bytes
C25_FramesAfterGarbage == C25_ClientResyncs /\ C25_ServiceResyncs

\* the method names of the method table
DocumentedMethods ==
    {S_ping, S_register_user, S_register, S_send_otp, S_verify_otp,
     S_login_user, S_login, S_get_profile, S_profile}

\* a frame with a method name outside the table is answered with the error
\* response "unknown method: <m>" under its own request-id, and no handler
\* runs for it
C26_UnknownMethodAnswered ==
    \A i \in 1..Len(handled) :
        handled[i].method \notin DocumentedMethods =>
            /\ handled[i].ran = ""
            /\ handled[i].response =
                   sendError_Bytes(S_unknownMethod \o handled[i].method,
                                   handled[i].requestID)

\* C26: each method name of the table is dispatched to a handler, and any
\* other name m is answered with "unknown method: m" under the request-id of
\* the frame
C26_DispatchTable ==
    /\ \A i \in 1..Len(handled) :
          handled[i].method \in DocumentedMethods =>
              /\ handled[i].ran # ""
              /\ handled[i].err # S_unknownMethod \o handled[i].method
    /\ C26_UnknownMethodAnswered

(***************************************************************************)
(* Concurrent writes                                                       *)
(***************************************************************************)
NextWrites ==
    \E w \in Writers :
        \/ Write_Begin(w)
        \/ \E k \in 1..FrameLen : Write_Some(w, k)
        \/ Write_Return(w)

SpecWrites == Init /\ [][NextWrites]_vars

\* the positions of the stream that hold bytes of frame f of writer w
BytesOf(w, f) ==
    {p \in 1..Len(stream) : stream[p].writer = w /\ stream[p].frame = f}

\* C27: the bytes of one response frame lie next to each other on the
\* connection and in their order, and a frame whose Write succeeded is
\* there from its first byte to its last
C27_FramesContiguous ==
    \A w \in Writers : \A f \in 1..writers[w].frame :
        /\ \A p, q \in BytesOf(w, f) :
              stream[q].index - stream[p].index = q - p
        /\ (BytesOf(w, f) # {}) =>
              \E p \in BytesOf(w, f) : stream[p].index = 1
        /\ (f \notin writers[w].failed
                /\ (f < writers[w].frame \/ writers[w].pc = "idle")) =>
              Cardinality(BytesOf(w, f)) = FrameLen

\* the three goroutines have each written a frame to the connection, one of
\* them in two pieces while the others waited
C27_Witness ==
    /\ \A w \in Writers : writers[w].frame >= 1
    /\ \E w \in Writers :
          /\ writers[w].pc = "writing"
          /\ writers[w].pos \in 1..(FrameLen - 1)
          /\ \E v \in Writers \ {w} :
                writers[v].pc = "idle" /\ writers[v].frame < MaxWrites
    /\ Len(stream) > 2 * FrameLen

(***************************************************************************)
(* The handler deadline                                                    *)
(***************************************************************************)
NextTasks ==
    \/ \E w \in TaskWorkers :
          \/ Task_Start(w)
          \/ \E ok \in BOOLEAN : Task_DownstreamReturns(w, ok)
          \/ Task_Answer(w)
    \/ Task_Tick

SpecTasks == Init /\ [][NextTasks]_vars

\* C28: no worker is still inside its handler, waiting for a dependency,
\* once handlerTimeout has passed since the invocation began; what it then
\* writes is an error frame, and the request no longer counts as active
C28_HandlerBounded ==
    /\ \A w \in TaskWorkers :
          tasks[w].elapsed > handlerTimeout => tasks[w].pc # "handling"
    /\ \A w \in TaskWorkers : \A i \in 1..Len(tasks[w].answers) :
          tasks[w].answers[i].after > handlerTimeout =>
              tasks[w].answers[i].kind = "sendError"

(***************************************************************************)
(* The pool of connections                                                 *)
(***************************************************************************)
NextPool ==
    \/ \E c \in Causes : Pool_TimerFires(c)
    \/ Pool_Request
    \/ \E i \in SockIds :
          \/ Pool_Connect(i)
          \/ Pool_Error(i)
          \/ Pool_Close(i)
          \/ Pool_ProbeFails(i)
          \/ Pool_WriteFails(i)

SpecPool == Init /\ [][NextPool]_vars

\* the client's connections to the service, established or connecting
LiveSockets == {i \in SockIds : sockets[i].state \in {"connecting", "connected"}}

\* C29: the connections to a service, established plus still connecting,
\* are never more than maxConnections
C29_AtMostMaxConnections == Cardinality(LiveSockets) <= maxConnections

\* C30: for each connection that was lost at most one socket is created in
\* its place
C30_OneReplacementPerLoss == \A i \in SockIds : replacements[i] <= 1

(***************************************************************************)
(* Specification of the pool with its health check pass                    *)
(***************************************************************************)
ReapRoom == \E i \in Unused : i <= MaxReapSockets

NextReap ==
    \/ ReapRoom /\ \E c \in Causes : Pool_TimerFires(c)
    \/ ReapRoom /\ Pool_Request
    \/ \E i \in SockIds :
          \/ Pool_Connect(i)
          \/ Pool_Error(i)
          \/ Pool_Close(i)
          \/ ReapRoom /\ Pool_ProbeFails(i)
          \/ ReapRoom /\ Pool_WriteFails(i)
          \/ Pool_Use(i)
    \/ Pool_Tick
    \/ Pool_HealthCheck

SpecReap == Init /\ [][NextReap]_vars

\* C31: a health check pass closes only connections that were unused for
\* more than MAX_SOCKET_IDLE_TIME, and leaves the list of a service with at
\* least minConnections entries, or as long as it was
C31_ReapOnlyIdleAboveMin ==
    [][Pool_HealthCheck =>
         /\ \A i \in connectionList \ {j \in SockIds : sockets'[j].listed} :
                sockets[i].idle > MAX_SOCKET_IDLE_TIME
         /\ Cardinality({j \in SockIds : sockets'[j].listed})
                >= MIN(Cardinality(connectionList), minConnections)]_vars

\* a connection was reaped while another one, used since, stayed
C31_Witness ==
    \E i, j \in SockIds :
        /\ sockets[i].reaped
        /\ sockets[j].listed /\ sockets[j].idle <= MAX_SOCKET_IDLE_TIME

\* C32: a connection closed by idle reaping stays closed: its 'close' arms
\* no createConnection, so the list stays as short as the pass left it
C32_ReapedStaysClosed ==
    \A i \in SockIds : sockets[i].reaped => createTimers[i] = 0

(***************************************************************************)
(* Specification of the service that is stopped                            *)
(***************************************************************************)
\* the clients that connect while the service is stopped
StopConns == {"c1"}

NextStop ==
    \/ \E a \in Acceptors : Acceptor_Select(a)
    \/ \E a \in Acceptors : \E c \in StopConns : Acceptor_Accept(a, c)
    \/ \E a \in Acceptors : Acceptor_AcceptFails(a)
    \/ \E c \in Conns : ClientSend(c)
    \/ \E c \in Conns : ClientClose(c)
    \/ \E c \in Conns : Reader_Select(c)
    \/ \E c \in Conns : Reader_Read(c)
    \/ \E c \in Conns : Reader_Process(c)
    \/ \E w \in Workers : Worker_Exit(w)
    \/ \E w \in Workers : Worker_Take(w)
    \/ \E w \in Workers : Worker_Handle(w)
    \/ \E w \in Workers : Worker_Write(w)
    \/ Stop_Done
    \/ Stop_Listener
    \/ Stop_Return

\* every goroutine that can take a step takes it in the end: Accept fails
\* on a closed listener, Read has a deadline of 60 seconds, a handler
\* returns, Write has a deadline; Stop goes on once it was called
SpecStop ==
    /\ Init /\ [][NextStop]_vars
    /\ \A a \in Acceptors :
          WF_vars(Acceptor_Select(a)) /\ WF_vars(Acceptor_AcceptFails(a))
    /\ \A c \in Conns :
          /\ WF_vars(Reader_Select(c))
          /\ WF_vars(Reader_Read(c))
          /\ WF_vars(Reader_Process(c))
    /\ \A w \in Workers :
          /\ WF_vars(Worker_Exit(w))
          /\ WF_vars(Worker_Handle(w))
          /\ WF_vars(Worker_Write(w))
    /\ WF_vars(Stop_Listener)
    /\ WF_vars(Stop_Return)

Stopped ==
    /\ messageQueue.closed
    /\ \A a \in Acceptors : acceptors[a] = "exited"
    /\ \A w \in Workers : workers[w].pc = "exited"
    /\ OpenConns = {}

C34_ReplayOnlyOwnMethod ==
    \A c \in Calls :
        (call[c].method = "verify_otp" /\ Done(c) /\ call[c].res.ok)
        => \/ \E r \in users : r.by = c
           \/ \E d \in Calls :
                 /\ d # c
                 /\ call[d].method = "verify_otp"
                 /\ call[d].key # "" /\ call[d].key = call[c].key
                 /\ \E r \in users : r.by = d

\* the successful send_otp calls for the email of verify_otp call c that
\* had returned when c started, and those in flight while c ran
SendsBefore(c) ==
    {d \in Calls : /\ call[d].method = "send_otp"
                   /\ call[d].email = call[c].email
                   /\ d < c /\ ~Concurrent(c, d)
                   /\ Done(d) /\ call[d].res.ok}

SendsDuring(c) ==
    {d \in Calls : /\ call[d].method = "send_otp"
                   /\ call[d].email = call[c].email
                   /\ Concurrent(c, d)}

\* the last of them: none of the others started after it had returned
LastSends(c) ==
    {d \in SendsBefore(c) :
        \A d2 \in SendsBefore(c) : d2 > d => Concurrent(d, d2)}

\* C35: the account a verify_otp creates for an email is the temporary
\* user of the most recent successful send_otp for that email, with its
\* username and (hashed) password; the send_otp that left the pending
\* registration counts when no later one succeeded
C35_AccountFromLastSend ==
    \A r \in users :
        (call[r.by].method = "verify_otp" /\ SendsDuring(r.by) = {})
        => IF SendsBefore(r.by) = {}
           THEN r.id = EmailNo(r.email)
           ELSE \E d \in LastSends(r.by) :
                   /\ r.id = d
                   /\ r.username = call[d].username
                   /\ r.password = HashPassword(call[d].password)

\* an account made from the data of a second send_otp, which re-used the
\* code of the first and named another user
C35_Witness ==
    \E r \in users : \E d \in Calls :
        /\ call[r.by].method = "verify_otp"
        /\ d \in SendsBefore(r.by)
        /\ r.id = d /\ r.username = "bob"
        /\ call[d].email = "a@x"
        /\ \E m1, m2 \in outbox :
              /\ m1.call = EmailNo("a@x") /\ m2.call = d
              /\ m1.email = "a@x" /\ m2.email = "a@x"
              /\ m1.otp = m2.otp

(***************************************************************************)
(* Specification of the CircularBuffer                                     *)
(***************************************************************************)
NextRing ==
    \/ \E data \in DataChoices : Ring_Write(data)
    \/ \E n \in 0..(MaxData + 1) : Ring_Peek(n)
    \/ \E n \in 0..(MaxData + 1) : Ring_Read(n)
    \/ \E n \in 0..(MaxData + 1) : Ring_Skip(n)
    \/ Ring_Clear

RingSpecInit ==
    /\ SvcInit /\ SrvInit /\ CliInit
    /\ WireOff /\ LockOff /\ TaskOff /\ PoolInit
    /\ AcceptInit /\ AccumInit /\ LastOff
    /\ RingInit

SpecRing == RingSpecInit /\ [][NextRing]_vars

\* C36: under every sequence of write, peek, read, skip and clear the
\* CircularBuffer is a FIFO queue of bytes: read and peek return the oldest
\* unread bytes in the order written, and length is what was written less
\* what was consumed
C36_RingIsFifo ==
    /\ got.result = got.expected
    /\ ring.length = Len(fifo)

\* a read of MaxData bytes across the end of an array that a resize has
\* made, with bytes left behind it
C36_Witness ==
    /\ got.op = "read"
    /\ Len(got.result) = MaxData
    /\ Capacity(ring) > ringCapacity
    /\ ring.readOffset > 0 /\ ring.readOffset < MaxData
    /\ ring.length > 0

(***************************************************************************)
(* Specification of the client's accumulator                               *)
(***************************************************************************)
\* responses as the service encodes them: a small one, and one whose
\* content is as long as MAX_BUFFER_SIZE allows
AccumScripts ==
    {<<Item("response", FirstId, <<>>, S_braces),
       Item("response", SecondId, <<>>, PaddedJSON(n))>> :
         n \in {Len(S_braces), MAX_BUFFER_SIZE}}

AccumSpecInit ==
    /\ SvcInit /\ SrvInit /\ CliInit
    /\ WireOnly
    /\ \E s \in AccumScripts : WireInit(s)

NextAccum ==
    \/ Service_Write
    \/ \E n \in 1..ringCapacity : Accum_Data(n)

SpecAccum == AccumSpecInit /\ [][NextAccum]_vars

\* the capacities that doubling reaches from the first one
RECURSIVE Doubled(_)
Doubled(c) == IF c > MAX_BUFFER_SIZE THEN {c} ELSE {c} \union Doubled(2 * c)

\* C37: the capacity of the accumulator grows only by doubling and is
\* never larger than MAX_BUFFER_SIZE, whatever the peer sends
C37_CapacityBounded ==
    /\ capacity \in Doubled(ringCapacity)
    /\ capacity <= MAX_BUFFER_SIZE

\* the part that holds: the capacity is ringCapacity doubled some times
C37_OnlyDoubling == capacity \in Doubled(ringCapacity)

(***************************************************************************)
(* The ValidatedUser on its own.                                           *)
(***************************************************************************)

NextEntity ==
    \/ Entity_Tick
    \/ \E username \in EntityNames, email \in EntityEmails,
          password \in EntityPasswords, created \in 0..wall,
          updated \in 0..wall :
          NewValidatedUser(username, email, password, created, updated)
    \/ \E username \in EntityNames, email \in EntityEmails :
          ValidatedUser_UpdateProfile(username, email)
    \/ ValidatedUser_MarkAsVerified

SpecEntity == Init /\ [][NextEntity]_vars

\* C38: a ValidatedUser passes User.validate in every reachable state:
\* its username, e-mail and password are not empty and created_at is not
\* after updated_at, also after an UpdateProfile that returned an error.
C38_ValidatedUserIsValid ==
    validatedUser # NoValidated => User_validate(validatedUser) = ""

(***************************************************************************)
(* The OTP generators on their own.                                        *)
(***************************************************************************)

NextGen ==
    \/ \E generator \in Generators, length \in 1..MaxOtpLength :
          Gen_Start(generator, length)
    \/ \E n \in RandDigits : GenerateOTP_Digit(n)
    \/ \E nanos \in Nanos : GenerateOTP_Fallback(nanos)
    \/ \E b0 \in RandBytes, b1 \in RandBytes, b2 \in RandBytes :
          generateOTP(b0, b1, b2)
    \/ Gen_Return

SpecGen == Init /\ [][NextGen]_vars

\* C39: an OTP that a generator returns has exactly the configured number
\* of characters (6 for the generators without a configuration) and each of
\* them is a decimal digit, whatever the random source gave and also when
\* the fallback made it.
C39_OtpHasConfiguredDigits ==
    otpgen.ret # NoOtpString =>
        /\ otpgen.ret # Panicked
        /\ Len(otpgen.ret) = otpgen.length
        /\ \A i \in 1..Len(otpgen.ret) : IsDigit(otpgen.ret[i])

(***************************************************************************)
(* The client with the counters of its requests.                           *)
(***************************************************************************)

\* no call of sendBinaryRequest is under way
NoRequestInFlight ==
    /\ sends = {}
    /\ \A u \in MapKeys(pendingRequests) :
          MapGet(pendingRequests, u) # "request"

\* the counters are reset between the requests here, so that every
\* request is counted and settled within one period
NextMetrics ==
    \/ \E u \in Uuids : Metrics_SendBinaryRequest(u)
    \/ \E u \in Uuids : Metrics_SendBinaryRequest_Waited(u)
    \/ \E u \in Uuids : PingConnection(u)
    \/ ServerFrame
    \/ Metrics_HandleResponse
    \/ \E u \in Uuids : Metrics_TimerFires(u)
    \/ NoRequestInFlight /\ resetMetrics
    \/ Socket_Connect

SpecMetrics == Init /\ [][NextMetrics]_vars

\* C40: the requests counted as successful and those counted as failed are
\* together never more than the requests counted in totalRequests.
C40_OutcomesWithinTotal ==
    metrics.successfulRequests + metrics.failedRequests
        <= metrics.totalRequests


====
